---- MODULE Spec2Model ----
(***************************************************************************)
(* Synthetic healthcare data generators: the partitioned parallel          *)
(* orchestrator of scripts/generate_encounters_parallel.py and the         *)
(* sequential baseline of scripts/generate_encounters.py (Spec), the       *)
(* patient and provider generators of scripts/generate_data.py (DataSpec)  *)
(* and the query-testing script test_queries.py (TesterSpec).  Each        *)
(* specification runs one program and leaves the others' variables idle.   *)
(*                                                                         *)
(* Time is counted in whole hours.  Hour 0 is midnight of the day 730 days *)
(* before the first run; datetime.now() is the hour Now, which does not    *)
(* change while a script runs and is later for a later run (clock).        *)
(*                                                                         *)
(* The random generators (the stdlib `random` module and the Faker         *)
(* streams) are deterministic functions of their seed and of the number of *)
(* draws made so far.  Their algorithm is not part of the repository: the  *)
(* model uses a small multiplicative congruential generator, one library   *)
(* call advancing the stream by one step, and checks every member of a     *)
(* family of such generators (rng_variant).                                *)
(*                                                                         *)
(* Faker is not part of the repository either.  What seed() called on a    *)
(* Faker instance does depends on the installed version: it raises         *)
(* TypeError or it seeds that instance.  Both are modelled                 *)
(* (local_fake_seed).                                                      *)
(***************************************************************************)
EXTENDS Integers, Sequences, FiniteSets, TLC

\* ------------------------------------------------------------ bounds
MaxPatients == 2
MaxWorkers == 2
MaxVariant == 2
MaxClock == 1
MaxIdentifiers == 3
MaxGauss == 250
MaxInput == 2
MaxStream == 200

\* ------------------------------------------------- program constants
SEED == 12345
NUM_PROVIDERS == 50
NUM_UNITS == 15
NUM_MEDICATIONS == 200
NUM_DIAGNOSES == 20
NoDate == -1
NUM_QUERIES == 5

HoursPerDay == 24

\* The wall clock: whole hours passed since the first run started.
VARIABLE clock

\* datetime.now(): 14:00 of the day 730 days after hour 0, and later as the
\* clock advances.
Now == 730 * HoursPerDay + 14 + clock

\* ---------------------------------------------- the random streams
Modulus == 65537
Multiplier == 75

\* One draw: the stream's next state.  The value of the draw is read
\* from the new state by Below / RandInt.
Step(s) == (Multiplier * s) % Modulus

\* random.seed(n) / Faker.seed(n): the state from which the stream of seed
\* n starts in the generator variant v (the family is indexed from its
\* third member on).
SeedOf(n, v) == Step(Step(Step(((n + 4099 * (v + 3)) % (Modulus - 1)) + 1)))

\* The value in 0..n-1 of the draw that led to state s.
Below(s, n) == ((s - 1) * n) \div (Modulus - 1)

\* random.randint(a, b) read from state s.
RandInt(s, a, b) == a + Below(s, b - a + 1)

\* n draws whose values the model does not keep.
RECURSIVE Skip(_, _)
Skip(s, n) == IF n <= 0 THEN s ELSE Skip(Step(s), n - 1)

\* TLC evaluates the arguments of an operator only when they are used; a
\* loop tests Evaluated(m), which is always true, to have its state m
\* evaluated before the next pass, as the program does.
Evaluated(m) == DOMAIN m # {}

\* random.sample(population, k) for a population of at most 21 elements:
\* CPython's pool method (pick pool[j], move the last element into slot j).
RECURSIVE SamplePool(_, _, _, _)
SamplePool(rnd, pool, k, out) ==
    IF k = 0 THEN [rnd |-> rnd, out |-> out]
    ELSE LET r == Step(rnd)
             n == Len(pool)
             j == 1 + Below(r, n)
             pool2 == [i \in 1..(n - 1) |-> IF i = j THEN pool[n] ELSE pool[i]]
         IN SamplePool(r, pool2, k - 1, Append(out, pool[j]))

\* k draws from the pool with nothing removed from it.
RECURSIVE SampleWithReplacement(_, _, _, _)
SampleWithReplacement(rnd, pool, k, out) ==
    IF k = 0 THEN [rnd |-> rnd, out |-> out]
    ELSE SampleWithReplacement(Step(rnd), pool, k - 1,
                               Append(out, pool[1 + Below(Step(rnd), Len(pool))]))

\* The icd10_code of each entry of DIAGNOSES, in list order.
DIAGNOSES ==
    <<"I10", "E11.9", "J44.1", "N18.3", "I50.9", "J18.9", "A41.9", "N39.0", "K92.2",
      "I21.9", "I63.9", "E87.6", "D64.9", "F32.9", "M79.3", "R50.9", "R06.02", "R07.9",
      "R42", "G93.1">>

\* random.sample(range(1, NUM_MEDICATIONS + 1), k): CPython's set method
\* (redraw while the index was already selected).
RECURSIVE SampleSet(_, _, _, _)
SampleSet(rnd, n, k, out) ==
    IF k = 0 THEN [rnd |-> rnd, out |-> out]
    ELSE LET r == Step(rnd)
             j == 1 + Below(r, n)
         IN IF \E i \in 1..Len(out) : out[i] = j
            THEN SampleSet(r, n, k, out)
            ELSE SampleSet(r, n, k - 1, Append(out, j))

\* random.choices(['Inpatient','Emergency','Outpatient','Observation'],
\*                weights=[40, 30, 20, 10])[0]
EncounterType(s) ==
    LET u == Below(s, 100)
    IN IF u < 40 THEN "Inpatient"
       ELSE IF u < 70 THEN "Emergency"
       ELSE IF u < 90 THEN "Outpatient"
       ELSE "Observation"

\* Length of stay in hours, by encounter type.
LengthOfStay(type, s) ==
    IF type = "Inpatient" THEN RandInt(s, 2, 14) * HoursPerDay
    ELSE IF type = "Emergency" THEN RandInt(s, 3, 24)
    ELSE IF type = "Observation" THEN RandInt(s, 12, 48)
    ELSE RandInt(s, 1, 6)

\* fake.date_time_between(start_date=start_date, end_date='now')
DateTimeBetween(start_date, s) ==
    IF Now - start_date <= 0 THEN start_date
    ELSE start_date + Below(s, Now - start_date + 1)

\* An encounter that keeps its computed discharge_date when it is active.
EncounterRecordDated(g, patient_id, start_date, local) ==
    LET encounter_type == EncounterType(Step(g.rnd))
        fdate == Step(IF local THEN g.lfk ELSE g.fk)
        admit_date == DateTimeBetween(start_date, fdate)
        discharge_date == admit_date + LengthOfStay(encounter_type, Skip(g.rnd, 2))
        is_active == discharge_date > Now - 7 * HoursPerDay
    IN [encounter_id |-> g.encounter_id,
        patient_id |-> patient_id,
        encounter_number |-> Step(IF local THEN g.fk ELSE fdate),
        encounter_type |-> encounter_type,
        admit_date |-> admit_date,
        discharge_date |-> discharge_date,
        admitting_provider_id |-> RandInt(Skip(g.rnd, 3), 1, NUM_PROVIDERS),
        attending_provider_id |-> RandInt(Skip(g.rnd, 4), 1, NUM_PROVIDERS),
        current_unit_id |-> RandInt(Skip(g.rnd, 5), 1, NUM_UNITS),
        encounter_status |-> IF is_active THEN "Active" ELSE "Discharged"]

\* ------------------------------------------- encounters and diagnoses
\* The generation state g threaded through the loops:
\*   rnd  the `random` module's stream,  lfk  the stream of local_fake,
\*   fk   the stream of the module-level `fake`,
\*   encounter_id, diagnosis_id  the next IDs,  encounters, diagnoses.
\* With local = FALSE (the sequential script) every Faker draw is made from
\* the module-level `fake`.
\*
\* Draws of `random` for one encounter, counted from g.rnd: 1 encounter_type,
\* 2 los_days, 3 admitting_provider_id, 4 attending_provider_id,
\* 5 current_unit_id, 6 bed_number, 7 chief_complaint, 8 admission_source,
\* 9 discharge_disposition (only when not active).
EncounterRecord(g, patient_id, start_date, local) ==
    LET encounter_type == EncounterType(Step(g.rnd))
        fdate == Step(IF local THEN g.lfk ELSE g.fk)
        admit_date == DateTimeBetween(start_date, fdate)
        discharge_date == admit_date + LengthOfStay(encounter_type, Skip(g.rnd, 2))
        is_active == discharge_date > Now - 7 * HoursPerDay
    IN [encounter_id |-> g.encounter_id,
        patient_id |-> patient_id,
        encounter_number |-> Step(IF local THEN g.fk ELSE fdate),
        encounter_type |-> encounter_type,
        admit_date |-> admit_date,
        discharge_date |-> IF is_active THEN NoDate ELSE discharge_date,
        admitting_provider_id |-> RandInt(Skip(g.rnd, 3), 1, NUM_PROVIDERS),
        attending_provider_id |-> RandInt(Skip(g.rnd, 4), 1, NUM_PROVIDERS),
        current_unit_id |-> RandInt(Skip(g.rnd, 5), 1, NUM_UNITS),
        encounter_status |-> IF is_active THEN "Active" ELSE "Discharged"]

\* Diagnoses tagged 'Primary' on the last element of the sample.
DiagnosesPrimaryLast(rnd, selected, enc, diagnosis_id) ==
    [i \in 1..Len(selected) |->
        [diagnosis_id |-> diagnosis_id + i - 1,
         encounter_id |-> enc.encounter_id,
         icd10_code |-> DIAGNOSES[selected[i]],
         diagnosis_type |-> IF i = Len(selected) THEN "Primary" ELSE "Secondary",
         diagnosed_date |-> enc.admit_date
             + RandInt(Skip(rnd, (IF enc.encounter_status = "Active" THEN 2 ELSE 4)
                                 * (i - 1) + 1), 1, 24),
         diagnosed_by_provider_id |->
             RandInt(Skip(rnd, (IF enc.encounter_status = "Active" THEN 2 ELSE 4)
                               * (i - 1) + 2), 1, NUM_PROVIDERS),
         is_resolved |-> IF enc.encounter_status = "Active" THEN FALSE
                         ELSE Below(Skip(rnd, 4 * (i - 1) + 3), 10) >= 3]]

\* The diagnoses of one encounter (for i, ... in enumerate(selected)); rnd
\* is the stream after random.sample.  Each diagnosis draws diagnosed_date,
\* diagnosed_by_provider_id and, when the encounter is not active,
\* is_resolved and resolved_date.
DrawsPerDiagnosis(enc) == IF enc.encounter_status = "Active" THEN 2 ELSE 4

Diagnoses(rnd, selected, enc, diagnosis_id) ==
    [i \in 1..Len(selected) |->
        [diagnosis_id |-> diagnosis_id + i - 1,
         encounter_id |-> enc.encounter_id,
         icd10_code |-> DIAGNOSES[selected[i]],
         diagnosis_type |-> IF i = 1 THEN "Primary" ELSE "Secondary",
         diagnosed_date |-> enc.admit_date
             + RandInt(Skip(rnd, DrawsPerDiagnosis(enc) * (i - 1) + 1), 1, 24),
         diagnosed_by_provider_id |->
             RandInt(Skip(rnd, DrawsPerDiagnosis(enc) * (i - 1) + 2), 1, NUM_PROVIDERS),
         is_resolved |-> IF enc.encounter_status = "Active" THEN FALSE
                         ELSE Below(Skip(rnd, DrawsPerDiagnosis(enc) * (i - 1) + 3), 10) >= 3]]

\* The rest of one pass of `for _ in range(num_encounters)`, the encounter
\* enc built and its diagnoses sampled: the new state and the start_date of
\* the patient's next encounter.
AfterSample(g, enc, start_date, local, sample) ==
    LET discharged == enc.encounter_status # "Active"
        r == Skip(sample.rnd, DrawsPerDiagnosis(enc) * Len(sample.out))
        rnd == IF discharged THEN Step(r) ELSE r
    IN [g |-> [rnd |-> rnd,
               lfk |-> IF local THEN Skip(g.lfk, 2) ELSE g.lfk,
               fk |-> IF local THEN Step(g.fk) ELSE Skip(g.fk, 3),
               encounter_id |-> g.encounter_id + 1,
               diagnosis_id |-> g.diagnosis_id + Len(sample.out),
               encounters |-> Append(g.encounters, enc),
               diagnoses |-> g.diagnoses
                             \o Diagnoses(sample.rnd, sample.out, enc, g.diagnosis_id)],
        start_date |-> IF discharged
                       THEN enc.discharge_date + RandInt(rnd, 7, 180) * HoursPerDay
                       ELSE start_date]

\* The diagnoses drawn one by one from the whole catalog.
SampleDiagnosesWithReplacement(r) ==
    SampleWithReplacement(Step(r), [i \in 1..NUM_DIAGNOSES |-> i],
                          RandInt(Step(r), 1, 5), <<>>)

\* num_diagnoses = random.randint(1, 5); random.sample(DIAGNOSES, num_diagnoses),
\* r being the stream after the encounter's own fields.
SampleDiagnoses(r) ==
    SamplePool(Step(r), [i \in 1..NUM_DIAGNOSES |-> i], RandInt(Step(r), 1, 5), <<>>)

AfterEncounter(g, enc, start_date, local) ==
    AfterSample(g, enc, start_date, local,
                SampleDiagnoses(Skip(g.rnd, IF enc.encounter_status = "Active"
                                            THEN 8 ELSE 9)))

\* One pass of the body of `for _ in range(num_encounters)`.
GenerateEncounter(g, patient_id, start_date, local) ==
    AfterEncounter(g, EncounterRecord(g, patient_id, start_date, local), start_date, local)

\* for _ in range(num_encounters): e = [g, start_date].
RECURSIVE EncounterLoop(_, _, _, _)
EncounterLoop(e, patient_id, remaining, local) ==
    IF Evaluated(e) /\ remaining = 0 THEN e.g
    ELSE EncounterLoop(GenerateEncounter(e.g, patient_id, e.start_date, local),
                       patient_id, remaining - 1, local)

\* One patient: num_encounters = random.randint(1, 5), then the encounters.
GeneratePatient(g, patient_id, local) ==
    EncounterLoop([g |-> [g EXCEPT !.rnd = Step(g.rnd)],
                   start_date |-> Now - 730 * HoursPerDay],
                  patient_id, RandInt(Step(g.rnd), 1, 5), local)

\* for patient_id in range(first, last): ...
RECURSIVE PatientLoop(_, _, _, _)
PatientLoop(g, patient_id, last, local) ==
    IF Evaluated(g) /\ patient_id >= last THEN g
    ELSE PatientLoop(GeneratePatient(g, patient_id, local), patient_id + 1, last, local)

\* --------------------------------------------- the Stage-2 kernels
\* The state m of a Stage-2 loop: [rnd, id, out].

\* End of the series of an encounter: its discharge, or now while Active.
EndDate(enc) ==
    IF enc.encounter_status = "Discharged" THEN enc.discharge_date ELSE Now

\* times_per_day of the frequency with index f in
\* ['Daily','BID','TID','QID','Q6H','Q8H','Q12H','PRN','STAT'] (0-based);
\* r is the state after the randint(0, 2) draw.
TimesPerDay(f, r) ==
    IF f = 0 THEN 1 ELSE IF f = 1 THEN 2 ELSE IF f = 2 THEN 3 ELSE IF f = 3 THEN 4
    ELSE IF f = 4 THEN 4 ELSE IF f = 5 THEN 3 ELSE IF f = 6 THEN 2
    ELSE RandInt(r, 0, 2)

\* a / b: the quotient, or the ZeroDivisionError raised.
Divide(a, b) ==
    IF b = 0 THEN [exc |-> "ZeroDivisionError", value |-> 0]
    ELSE [exc |-> "", value |-> a \div b]

\* A slot loop that makes one pass more.
InRangeInclusive(time_slot, times_per_day) == time_slot <= times_per_day

\* for time_slot in range(times_per_day): the loop has a pass for time_slot.
InRange(time_slot, times_per_day) == time_slot < times_per_day

\* One administration: the body of `for time_slot in range(times_per_day)`.
\* Draws: random.random() > 0.95, the status when a dose is missed, then
\* six draws for the doses, routes, site and administering provider.
MedAdmin(m, enc, med_id, freq, times_per_day, current_date, time_slot) ==
    LET missed == Below(Step(m.rnd), 100) >= 95
        s == Below(Skip(m.rnd, 2), 3)
    IN [rnd |-> Skip(m.rnd, IF missed THEN 8 ELSE 7),
        id |-> m.id + 1,
        out |-> Append(m.out,
                   [admin_id |-> m.id,
                    encounter_id |-> enc.encounter_id,
                    medication_id |-> med_id,
                    ordered_frequency |-> freq,
                    admin_date |-> current_date
                                   + time_slot * Divide(HoursPerDay, times_per_day).value,
                    admin_status |-> IF ~missed THEN "Given"
                                     ELSE IF s = 0 THEN "Held"
                                     ELSE IF s = 1 THEN "Refused" ELSE "Not Given"])]

RECURSIVE MedSlotLoop(_, _, _, _, _, _, _)
MedSlotLoop(m, enc, med_id, freq, times_per_day, current_date, time_slot) ==
    IF Evaluated(m) /\ ~InRange(time_slot, times_per_day) THEN m
    ELSE MedSlotLoop(MedAdmin(m, enc, med_id, freq, times_per_day, current_date, time_slot),
                     enc, med_id, freq, times_per_day, current_date, time_slot + 1)

\* while current_date < end_date: ...; current_date += timedelta(days=1)
RECURSIVE MedDayLoop(_, _, _, _, _, _)
MedDayLoop(m, enc, med_id, freq, times_per_day, current_date) ==
    IF Evaluated(m) /\ current_date >= enc.discharge_date THEN m
    ELSE MedDayLoop(MedSlotLoop(m, enc, med_id, freq, times_per_day, current_date, 0),
                    enc, med_id, freq, times_per_day, current_date + HoursPerDay)

\* One medication: frequency = random.choice(frequencies), times_per_day,
\* then its administrations.  With eager = TRUE the default of
\* dict.get(frequency, random.randint(0, 2)) is drawn for every frequency
\* (the parallel script); with eager = FALSE only for PRN and STAT (the
\* if/elif chain of the sequential script).
Medication(m, enc, med_id, eager) ==
    LET freq == Below(Step(m.rnd), 9)
        r == Skip(m.rnd, IF eager \/ freq >= 7 THEN 2 ELSE 1)
    IN MedDayLoop([m EXCEPT !.rnd = r], enc, med_id, freq, TimesPerDay(freq, r),
                  enc.admit_date)

\* for med_id in selected_meds
RECURSIVE MedLoop(_, _, _, _, _)
MedLoop(m, enc, selected, i, eager) ==
    IF Evaluated(m) /\ i > Len(selected) THEN m
    ELSE MedLoop(Medication(m, enc, selected[i], eager), enc, selected, i + 1, eager)

SelectedMeds(m, enc, sample, eager) ==
    MedLoop([m EXCEPT !.rnd = sample.rnd], enc, sample.out, 1, eager)

\* Medications for every encounter, an active one's given up to now.
MedEncounterAnyStatus(m, enc, eager) ==
    SelectedMeds(m, [enc EXCEPT !.discharge_date = EndDate(enc)],
                 SampleSet(Step(m.rnd), NUM_MEDICATIONS,
                           RandInt(Step(m.rnd), 3, 10), <<>>),
                 eager)

\* One encounter of the batch: nothing unless it is Discharged; else
\* num_meds = random.randint(3, 10) and random.sample(range(1, 201), num_meds).
MedEncounter(m, enc, eager) ==
    IF enc.encounter_status # "Discharged" THEN m
    ELSE SelectedMeds(m, enc,
                      SampleSet(Step(m.rnd), NUM_MEDICATIONS,
                                RandInt(Step(m.rnd), 3, 10), <<>>),
                      eager)

RECURSIVE MedEncounterLoop(_, _, _, _)
MedEncounterLoop(m, batch, i, eager) ==
    IF Evaluated(m) /\ i > Len(batch) THEN m
    ELSE MedEncounterLoop(MedEncounter(m, batch[i], eager), batch, i + 1, eager)

\* LAB_TESTS: (low, high) of each test in hundredths of its unit, in list
\* order.
LAB_TESTS ==
    <<<<60, 120>>, <<350, 500>>, <<13600, 14500>>, <<2200, 2800>>, <<1000, 4000>>,
      <<1000, 3400>>, <<30, 120>>, <<4000, 6000>>, <<10000, 20000>>, <<5000, 15000>>,
      <<420, 540>>, <<450, 1100>>, <<15000, 40000>>, <<1200, 1600>>, <<3600, 4600>>>>

\* random.uniform(a, b) = a + (b - a) * random(), a and b in thousandths;
\* random() is one of UniformSteps fractions k / UniformSteps, 0 included.
UniformSteps == 64

Uniform(s, a, b) == a + ((b - a) * Below(s, UniformSteps)) \div UniformSteps

\* round(x, 2): thousandths to hundredths.
Round2(x) == (x + 5) \div 10

\* value = round(random.uniform(high, high * 1.3), 2) and its flag.
HighResult(high, s) ==
    [result_value |-> Round2(Uniform(s, 10 * high, 13 * high)),
     abnormal_flag |-> IF 10 * Round2(Uniform(s, 10 * high, 13 * high)) < 12 * high
                       THEN "High" ELSE "Critical High"]

\* value = round(random.uniform(low * 0.7, low), 2) and its flag.
LowResult(low, s) ==
    [result_value |-> Round2(Uniform(s, 7 * low, 10 * low)),
     abnormal_flag |-> IF 10 * Round2(Uniform(s, 7 * low, 10 * low)) > 8 * low
                       THEN "Low" ELSE "Critical Low"]

\* A test of the basic metabolic panel, rnd the stream before its draws:
\* random.random() > 0.8, then random.random() > 0.5 and the value, or the
\* value alone.
PanelResult(low, high, rnd) ==
    IF Below(Step(rnd), 10) >= 8
    THEN IF Below(Skip(rnd, 2), 2) = 1 THEN HighResult(high, Skip(rnd, 3))
         ELSE LowResult(low, Skip(rnd, 3))
    ELSE [result_value |-> Round2(Uniform(Skip(rnd, 2), 10 * low, 10 * high)),
          abnormal_flag |-> "Normal"]

\* A test of the CBC: value = round(random.uniform(low * 0.9, high * 1.1), 2)
\* and the flag computed from it.
CbcResult(low, high, s) ==
    [result_value |-> Round2(Uniform(s, 9 * low, 11 * high)),
     abnormal_flag |-> IF /\ low <= Round2(Uniform(s, 9 * low, 11 * high))
                          /\ Round2(Uniform(s, 9 * low, 11 * high)) <= high
                       THEN "Normal"
                       ELSE IF Round2(Uniform(s, 9 * low, 11 * high)) > high
                       THEN "High" ELSE "Low"]

\* One lab result.  A test of the metabolic panel (1..8) draws
\* random.random() > 0.8, then the side and the value when abnormal, else the
\* value; a test of the CBC (11..15) draws its value.
LabResult(m, enc, collection_time, test) ==
    [rnd |-> Skip(m.rnd, IF test > 8 THEN 1
                         ELSE IF Below(Step(m.rnd), 10) >= 8 THEN 3 ELSE 2),
     id |-> m.id + 1,
     out |-> Append(m.out,
                [lab_id |-> m.id,
                 encounter_id |-> enc.encounter_id,
                 test |-> test,
                 reference_range_low |-> LAB_TESTS[test][1],
                 reference_range_high |-> LAB_TESTS[test][2],
                 collected_date |-> collection_time]
                @@ (IF test > 8
                    THEN CbcResult(LAB_TESTS[test][1], LAB_TESTS[test][2], Step(m.rnd))
                    ELSE PanelResult(LAB_TESTS[test][1], LAB_TESTS[test][2], m.rnd)))]

\* The labs of one day: LAB_TESTS[:8], then, when cbc, LAB_TESTS[10:15].
RECURSIVE LabTestLoop(_, _, _, _, _)
LabTestLoop(m, enc, collection_time, test, cbc) ==
    IF Evaluated(m) /\ (test > 15 \/ (test > 8 /\ ~cbc)) THEN m
    ELSE IF test \in {9, 10} THEN LabTestLoop(m, enc, collection_time, 11, cbc)
    ELSE LabTestLoop(LabResult(m, enc, collection_time, test), enc, collection_time,
                     test + 1, cbc)

\* while current_date < end_date: collection_time is 05:00 of the day of
\* current_date; the CBC is drawn on even days since admission.
RECURSIVE LabDayLoop(_, _, _)
LabDayLoop(m, enc, current_date) ==
    IF Evaluated(m) /\ current_date >= EndDate(enc) THEN m
    ELSE LabDayLoop(LabTestLoop(m, enc,
                                (current_date \div HoursPerDay) * HoursPerDay + 5, 1,
                                ((current_date - enc.admit_date) \div HoursPerDay) % 2 = 0),
                    enc, current_date + HoursPerDay)

\* Daily labs for every encounter, whatever its type.
LabEncounterAnyType(m, enc) == LabDayLoop(m, enc, enc.admit_date)

\* if encounter['encounter_type'] in ['Inpatient', 'Emergency']: the daily
\* labs from admit_date on.
LabEncounter(m, enc) ==
    IF enc.encounter_type \notin {"Inpatient", "Emergency"} THEN m
    ELSE LabDayLoop(m, enc, enc.admit_date)

RECURSIVE LabEncounterLoop(_, _, _)
LabEncounterLoop(m, batch, i) ==
    IF Evaluated(m) /\ i > Len(batch) THEN m
    ELSE LabEncounterLoop(LabEncounter(m, batch[i]), batch, i + 1)

\* random.gauss(mu, sigma) truncated by int(): the draw picks a deviation of
\* -3 .. 3 sigma in steps of a quarter sigma.
Gauss(s, mu, sigma) == (4 * mu + sigma * (Below(s, 25) - 12)) \div 4

Clamp(lo, hi, value) ==
    IF value < lo THEN lo ELSE IF value > hi THEN hi ELSE value

\* Every unit recorded as a regular unit is.
HoursBetweenRegular(enc) == 4

HoursBetween(enc) ==
    IF enc.current_unit_id <= 4 THEN 1
    ELSE IF enc.current_unit_id = 5 THEN 2 ELSE 4

\* The drawn values as recorded, with no range applied.
ValidRangesUnclamped(hr, rr, bp_sys, bp_dia, o2_sat) ==
    [heart_rate |-> hr,
     respiratory_rate |-> rr,
     blood_pressure_systolic |-> bp_sys,
     blood_pressure_diastolic |-> bp_dia,
     oxygen_saturation |-> o2_sat]

\* "Ensure values are within valid ranges": hr = max(40, min(180, hr)), ...
ValidRanges(hr, rr, bp_sys, bp_dia, o2_sat) ==
    [heart_rate |-> Clamp(40, 180, hr),
     respiratory_rate |-> Clamp(8, 40, rr),
     blood_pressure_systolic |-> Clamp(70, 200, bp_sys),
     blood_pressure_diastolic |-> Clamp(40, 120, bp_dia),
     oxygen_saturation |-> Clamp(85, 100, o2_sat)]

\* The vital signs recorded at current_time: one pass of the while loop.
\* Draws: 1 temp, 2 hr, 3 rr, 4 bp_sys, 5 bp_dia, 6 o2_sat, 7 pain, weight,
\* height and bmi on the first pass, position, oxygen_delivery and
\* oxygen_flow_rate when o2_sat <= 93, recorded_by_provider_id.
VitalSign(m, enc, current_time) ==
    LET vitals == ValidRanges(Gauss(Skip(m.rnd, 2), 75, 15),
                              Gauss(Skip(m.rnd, 3), 16, 3),
                              Gauss(Skip(m.rnd, 4), 120, 15),
                              Gauss(Skip(m.rnd, 5), 80, 10),
                              Gauss(Skip(m.rnd, 6), 97, 2))
    IN [rnd |-> Skip(m.rnd, 9 + (IF current_time = enc.admit_date THEN 3 ELSE 0)
                              + (IF vitals.oxygen_saturation > 93 THEN 0 ELSE 2)),
        id |-> m.id + 1,
        out |-> Append(m.out,
                   [vital_id |-> m.id,
                    encounter_id |-> enc.encounter_id,
                    recorded_date |-> current_time] @@ vitals)]

\* How many passes `while current < end: ...; current += step` makes.
Passes(start, end, step) ==
    IF start >= end THEN 0 ELSE (end - start + step - 1) \div step

\* Passes lo .. hi of the while loop of one encounter, pass k being made at
\* admit_date + k * hours_between (the passes are made in order; the range
\* is halved only to keep the evaluation shallow).
RECURSIVE VitalLoop(_, _, _, _)
VitalLoop(m, enc, lo, hi) ==
    IF Evaluated(m) /\ lo > hi THEN m
    ELSE IF lo = hi THEN VitalSign(m, enc, enc.admit_date + lo * HoursBetween(enc))
    ELSE VitalLoop(VitalLoop(m, enc, lo, (lo + hi) \div 2), enc, (lo + hi) \div 2 + 1, hi)

VitalEncounter(m, enc) ==
    VitalLoop(m, enc, 0, Passes(enc.admit_date, EndDate(enc), HoursBetween(enc)) - 1)

RECURSIVE VitalEncounterLoop(_, _, _)
VitalEncounterLoop(m, batch, i) ==
    IF Evaluated(m) /\ i > Len(batch) THEN m
    ELSE VitalEncounterLoop(VitalEncounter(m, batch[i]), batch, i + 1)

\* An assessment that records its own ID in place of the encounter's.
AssessmentOfItself(m, enc, assessment_date, assessment_type) ==
    [rnd |-> Skip(m.rnd, IF assessment_type = "Shift" THEN 13 ELSE 12),
     id |-> m.id + 1,
     out |-> Append(m.out, [assessment_id |-> m.id,
                            encounter_id |-> m.id,
                            assessment_date |-> assessment_date,
                            assessment_type |-> assessment_type])]

\* One nursing assessment; an Admission assessment makes 12 draws, a Shift
\* assessment 13 (its notes).
Assessment(m, enc, assessment_date, assessment_type) ==
    [rnd |-> Skip(m.rnd, IF assessment_type = "Shift" THEN 13 ELSE 12),
     id |-> m.id + 1,
     out |-> Append(m.out, [assessment_id |-> m.id,
                            encounter_id |-> enc.encounter_id,
                            assessment_date |-> assessment_date,
                            assessment_type |-> assessment_type])]

\* while current_time < end_date: ...; current_time += timedelta(hours=12)
RECURSIVE ShiftLoop(_, _, _)
ShiftLoop(m, enc, current_time) ==
    IF Evaluated(m) /\ current_time >= enc.discharge_date THEN m
    ELSE ShiftLoop(Assessment(m, enc, current_time, "Shift"), enc, current_time + 12)

ShiftAssessments(m, enc) ==
    IF enc.encounter_status = "Discharged" THEN ShiftLoop(m, enc, enc.admit_date + 12)
    ELSE m

RECURSIVE NursingEncounterLoop(_, _, _)
NursingEncounterLoop(m, batch, i) ==
    IF Evaluated(m) /\ i > Len(batch) THEN m
    ELSE NursingEncounterLoop(
             ShiftAssessments(Assessment(m, batch[i], batch[i].admit_date, "Admission"),
                              batch[i]),
             batch, i + 1)

\* generate_allergies(): a = [rnd, fk, id, out].  Each allergy draws two
\* Faker dates and reported_by_provider_id.
RECURSIVE AllergyLoop(_, _, _, _)
AllergyLoop(a, patient_id, selected, i) ==
    IF Evaluated(a) /\ i > Len(selected) THEN a
    ELSE AllergyLoop([rnd |-> Step(a.rnd), fk |-> Skip(a.fk, 2), id |-> a.id + 1,
                      out |-> Append(a.out, [allergy_id |-> a.id,
                                             patient_id |-> patient_id,
                                             allergen |-> selected[i]])],
                     patient_id, selected, i + 1)

SelectedAllergies(a, patient_id, sample) ==
    AllergyLoop([a EXCEPT !.rnd = sample.rnd], patient_id, sample.out, 1)

\* One patient: if random.random() < 0.3, num_allergies = random.randint(1, 3)
\* and random.sample(allergens, num_allergies).
PatientAllergies(a, patient_id) ==
    IF Below(Step(a.rnd), 10) >= 3 THEN [a EXCEPT !.rnd = Step(a.rnd)]
    ELSE SelectedAllergies(a, patient_id,
                           SamplePool(Skip(a.rnd, 2), [i \in 1..10 |-> i],
                                      RandInt(Skip(a.rnd, 2), 1, 3), <<>>))

RECURSIVE AllergyPatientLoop(_, _, _)
AllergyPatientLoop(a, patient_id, last) ==
    IF Evaluated(a) /\ patient_id >= last THEN a
    ELSE AllergyPatientLoop(PatientAllergies(a, patient_id), patient_id + 1, last)

\* ------------------------------------------------------------ state
VARIABLES
    NUM_PATIENTS,            \* module constant, line 22
    NUM_WORKERS,             \* multiprocessing.cpu_count(), line 26
    rng_variant,             \* which generator of the family the library is
    local_fake_seed,         \* what local_fake.seed(n) does in the installed Faker
    pc,                      \* position of main()
    stage,                   \* 1 encounters, 2 med admins, 3 labs, 4 vitals, 5 nursing
    main_random,             \* the parent process's `random` stream
    main_fake,               \* the parent process's module-level `fake` stream
    patient_batches,         \* list of (start, end)
    encounter_batches,       \* list of slices of all_encounters
    worker,                  \* the pool's processes: [task, rnd, fk]
    task,                    \* the stage's futures: [status, exc, value]
    completed,               \* the futures in the order they completed
    collected,               \* how many of them as_completed has yielded
    returned,                \* per stage, the values its tasks returned
    all_encounters, all_diagnoses, all_med_admins, all_lab_results,
    all_vital_signs, all_nursing_assessments, allergies,
    written,                 \* the files written, in order
    exception,               \* the exception main() died of, "" if none
    sequential_output        \* what the sequential script's last run wrote

\* scripts/generate_data.py: the state of generate_patients() and
\* generate_providers().
VARIABLES
    num_patients,            \* NUM_PATIENTS of generate_data.py, line 24
    num_providers,           \* NUM_PROVIDERS of generate_data.py, line 25
    data_pc,                 \* position of generate_data.py's main()
    mrn, mrns, patients,     \* locals of generate_patients()
    npi, npis, providers     \* locals of generate_providers()

data == <<num_patients, num_providers, data_pc, mrn, mrns, patients, npi, npis,
          providers>>

\* test_queries.py.
VARIABLES
    conn,                    \* the connection: "none", "open" or "closed"
    query_pc,                \* position of the script
    batch_output,            \* per query run from `queries`: what was printed
    stdin,                   \* the lines input() has still to read
    printed                  \* what the interactive mode printed last

tester == <<conn, query_pc, batch_output, stdin, printed>>

\* process_lab_batch() on one day of one encounter, from any state of the
\* `random` stream.
VARIABLES
    lab_random,              \* the `random` stream
    lab_test,                \* position in LAB_TESTS, 0 before the call
    next_lab_id,                  \* local lab_id
    day_lab_results              \* local lab_results

labs == <<lab_random, lab_test, next_lab_id, day_lab_results>>

\* The body of `for med_id in selected_meds` for one medication of one
\* discharged encounter, on the `random` stream of any seed.
VARIABLES
    med_script,              \* "parallel" or "sequential": whose body it is
    med_random,              \* the `random` stream
    med_pc,                  \* position in the body
    med_frequency,           \* index of frequency in frequencies
    med_times_per_day,       \* times_per_day
    med_current_date,        \* current_date
    med_time_slot,           \* time_slot
    med_admin_records        \* the administrations appended to med_admins

meds == <<med_script, med_random, med_pc, med_frequency, med_times_per_day,
          med_current_date, med_time_slot, med_admin_records>>

\* What a run of the parallel script's main() does not change.
cfg == <<NUM_PATIENTS, NUM_WORKERS, rng_variant, local_fake_seed, clock,
         sequential_output, data, tester, labs, meds>>
pool == <<worker, task, completed, collected>>
lists == <<all_encounters, all_diagnoses, all_med_admins, all_lab_results,
           all_vital_signs, all_nursing_assessments>>
vars == <<cfg, pc, stage, main_random, main_fake, patient_batches, encounter_batches,
          pool, returned, lists, allergies, written, exception>>

Workers == 1..NUM_WORKERS
Stages == 1..5

\* ------------------------------------------------------ the tasks
\* What a task leaves behind: the exception it raised ("" if none), its
\* return value, and the streams of the process that ran it.
Outcome(exc, value, rnd, fk) == [exc |-> exc, value |-> value, rnd |-> rnd, fk |-> fk]

\* random.seed(12345 + ...) of a task whose partition starts at offset.
TaskSeed(offset) == SeedOf(SEED + offset, rng_variant)

\* A denser allocation: one encounter ID reserved per patient.
base_encounter_id_dense(patient_range) == (patient_range[1] - 1) * 1 + 1

\* Lines 110 and 111.
base_encounter_id(patient_range) == (patient_range[1] - 1) * 5 + 1
base_diagnosis_id(patient_range) == (patient_range[1] - 1) * 25 + 1

\* Lines 200, 263, 343 and 401.
admin_id_start(encounters_batch) == encounters_batch[1].encounter_id * 100
lab_id_start(encounters_batch) == encounters_batch[1].encounter_id * 50
vital_id_start(encounters_batch) == encounters_batch[1].encounter_id * 200
assessment_id_start(encounters_batch) == encounters_batch[1].encounter_id * 20

PatientBatchOutcome(g) == Outcome("", <<g.encounters, g.diagnoses>>, g.rnd, g.fk)

\* A task that does not re-seed `random`: it draws on from wherever the
\* process's stream stands.
process_patient_batch_unseeded(patient_range, w) ==
    IF local_fake_seed = "raises"
    THEN Outcome("TypeError", <<>>, w.rnd, w.fk)
    ELSE PatientBatchOutcome(
             PatientLoop([rnd |-> w.rnd,
                          lfk |-> TaskSeed(patient_range[1]),
                          fk |-> w.fk,
                          encounter_id |-> base_encounter_id(patient_range),
                          diagnosis_id |-> base_diagnosis_id(patient_range),
                          encounters |-> <<>>,
                          diagnoses |-> <<>>],
                         patient_range[1], patient_range[2], TRUE))

\* process_patient_batch(patient_range) run by a process w.  Line 104 calls
\* seed() on a Faker instance: with a Faker that has the class method of
\* line 17 this raises TypeError or seeds local_fake, by its version; the
\* module-level `fake` is seeded by neither.
process_patient_batch(patient_range, w) ==
    IF local_fake_seed = "raises"
    THEN Outcome("TypeError", <<>>, TaskSeed(patient_range[1]), w.fk)
    ELSE PatientBatchOutcome(
             PatientLoop([rnd |-> TaskSeed(patient_range[1]),
                          lfk |-> TaskSeed(patient_range[1]),
                          fk |-> w.fk,
                          encounter_id |-> base_encounter_id(patient_range),
                          diagnosis_id |-> base_diagnosis_id(patient_range),
                          encounters |-> <<>>,
                          diagnoses |-> <<>>],
                         patient_range[1], patient_range[2], TRUE))

BatchOutcome(m, w) == Outcome("", m.out, m.rnd, w.fk)

\* The four Stage-2 tasks.  encounters_batch[0] raises IndexError on an
\* empty slice, before the process's stream is re-seeded.
process_med_admin_batch(encounters_batch, w) ==
    IF encounters_batch = <<>> THEN Outcome("IndexError", <<>>, w.rnd, w.fk)
    ELSE BatchOutcome(
             MedEncounterLoop([rnd |-> TaskSeed(encounters_batch[1].encounter_id),
                               id |-> admin_id_start(encounters_batch),
                               out |-> <<>>],
                              encounters_batch, 1, TRUE),
             w)

process_lab_batch(encounters_batch, w) ==
    IF encounters_batch = <<>> THEN Outcome("IndexError", <<>>, w.rnd, w.fk)
    ELSE BatchOutcome(
             LabEncounterLoop([rnd |-> TaskSeed(encounters_batch[1].encounter_id),
                               id |-> lab_id_start(encounters_batch),
                               out |-> <<>>],
                              encounters_batch, 1),
             w)

process_vitals_batch(encounters_batch, w) ==
    IF encounters_batch = <<>> THEN Outcome("IndexError", <<>>, w.rnd, w.fk)
    ELSE BatchOutcome(
             VitalEncounterLoop([rnd |-> TaskSeed(encounters_batch[1].encounter_id),
                                 id |-> vital_id_start(encounters_batch),
                                 out |-> <<>>],
                                encounters_batch, 1),
             w)

process_nursing_batch(encounters_batch, w) ==
    IF encounters_batch = <<>> THEN Outcome("IndexError", <<>>, w.rnd, w.fk)
    ELSE BatchOutcome(
             NursingEncounterLoop([rnd |-> TaskSeed(encounters_batch[1].encounter_id),
                                   id |-> assessment_id_start(encounters_batch),
                                   out |-> <<>>],
                                  encounters_batch, 1),
             w)

\* The function submitted for task i of stage s, run by a process in state w.
RunTask(s, i, w) ==
    IF s = 1 THEN process_patient_batch(patient_batches[i], w)
    ELSE IF s = 2 THEN process_med_admin_batch(encounter_batches[i], w)
    ELSE IF s = 3 THEN process_lab_batch(encounter_batches[i], w)
    ELSE IF s = 4 THEN process_vitals_batch(encounter_batches[i], w)
    ELSE process_nursing_batch(encounter_batches[i], w)

\* A process of a new pool: a copy of the parent, whose streams were seeded
\* at import and not drawn from since.
ForkedWorker == [task |-> 0, rnd |-> main_random, fk |-> main_fake]

\* No sort: the merged list as the for loop left it.
Unsorted(s) == s

\* list.sort(key=...): a stable sort (TLC's SortSeq is an insertion sort
\* that moves an element only past strictly greater ones).
SortByEncounterId(s) == SortSeq(s, LAMBDA a, b : a.encounter_id < b.encounter_id)
SortByDiagnosisId(s) == SortSeq(s, LAMBDA a, b : a.diagnosis_id < b.diagnosis_id)
SortByAdminId(s) == SortSeq(s, LAMBDA a, b : a.admin_id < b.admin_id)
SortByLabId(s) == SortSeq(s, LAMBDA a, b : a.lab_id < b.lab_id)
SortByVitalId(s) == SortSeq(s, LAMBDA a, b : a.vital_id < b.vital_id)
SortByAssessmentId(s) == SortSeq(s, LAMBDA a, b : a.assessment_id < b.assessment_id)

\* Ranges of batch_size patients each, the last one included.
PatientBatchesEven(P, W) ==
    [k \in 1..W |-> <<(k - 1) * (P \div W) + 1, (k - 1) * (P \div W) + 1 + (P \div W)>>]

\* Slices of encounter_batch_size encounters each, the last one included.
EncounterBatchesEven(encounters, W) ==
    [k \in 1..W |->
        SubSeq(encounters, (k - 1) * (Len(encounters) \div W) + 1,
               (k - 1) * (Len(encounters) \div W) + (Len(encounters) \div W))]

\* patient_batches, lines 525-530.
PatientBatches(P, W) ==
    [k \in 1..W |->
        <<(k - 1) * (P \div W) + 1,
          IF k - 1 < W - 1 THEN (k - 1) * (P \div W) + 1 + (P \div W) ELSE P + 1>>]

\* encounter_batches, lines 550-555: all_encounters[start:end] of a 0-based
\* half-open slice is the elements start+1 .. end.
EncounterBatches(encounters, W) ==
    [k \in 1..W |->
        SubSeq(encounters,
               (k - 1) * (Len(encounters) \div W) + 1,
               IF k - 1 < W - 1 THEN (k - 1) * (Len(encounters) \div W)
                                     + (Len(encounters) \div W)
               ELSE Len(encounters))]

\* generate_allergies() in the parent process.
generate_allergies(P, rnd, fk) ==
    AllergyPatientLoop([rnd |-> rnd, fk |-> fk, id |-> 1, out |-> <<>>], 1, P + 1)

FILES == <<"encounters.csv", "diagnoses.csv", "medication_administrations.csv",
           "lab_results.csv", "vital_signs.csv", "nursing_assessments.csv",
           "allergies.csv">>

\* ------------------------------------------------------------- Init
\* generate_data.py has not been started.
DataIdle ==
    /\ num_patients = 1
    /\ num_providers = 1
    /\ data_pc = "idle"
    /\ mrn = <<>>
    /\ mrns = {}
    /\ patients = <<>>
    /\ npi = <<>>
    /\ npis = {}
    /\ providers = <<>>

\* test_queries.py has not been started.
TesterIdle ==
    /\ conn = "none"
    /\ query_pc = "idle"
    /\ batch_output = <<>>
    /\ stdin = <<>>
    /\ printed = ""

\* process_lab_batch() has not been called on its own.
LabIdle ==
    /\ lab_random = 1
    /\ lab_test = 0
    /\ next_lab_id = 1
    /\ day_lab_results = <<>>

\* The medication loop has not been entered on its own.
MedIdle ==
    /\ med_script = "parallel"
    /\ med_random = 1
    /\ med_pc = "idle"
    /\ med_frequency = 0
    /\ med_times_per_day = 1
    /\ med_current_date = 0
    /\ med_time_slot = 0
    /\ med_admin_records = <<>>

\* The parallel script after import, before main().
GeneratorStart ==
    /\ clock = 0
    /\ pc = "start"
    /\ stage = 0
    /\ main_random = SeedOf(SEED, rng_variant)
    /\ main_fake = SeedOf(SEED, rng_variant)
    /\ patient_batches = <<>>
    /\ encounter_batches = <<>>
    /\ worker = <<>>
    /\ task = <<>>
    /\ completed = <<>>
    /\ collected = 0
    /\ returned = [s \in Stages |-> <<>>]
    /\ all_encounters = <<>>
    /\ all_diagnoses = <<>>
    /\ all_med_admins = <<>>
    /\ all_lab_results = <<>>
    /\ all_vital_signs = <<>>
    /\ all_nursing_assessments = <<>>
    /\ allergies = <<>>
    /\ written = <<>>
    /\ exception = ""
    /\ sequential_output = <<>>

Init ==
    /\ NUM_PATIENTS \in 1..MaxPatients
    /\ NUM_WORKERS \in 1..MaxWorkers
    /\ rng_variant \in 0..MaxVariant
    /\ local_fake_seed \in {"raises", "seeds"}
    /\ GeneratorStart
    /\ DataIdle
    /\ TesterIdle
    /\ LabIdle
    /\ MedIdle

\* ---------------------------------------------------------- actions
\* main(), lines 524-530.
CreatePatientBatches ==
    /\ pc = "start"
    /\ patient_batches' = PatientBatches(NUM_PATIENTS, NUM_WORKERS)
    /\ stage' = 1
    /\ pc' = "submit"
    /\ UNCHANGED <<cfg, main_random, main_fake, encounter_batches, pool, returned,
                   lists, allergies, written, exception>>

\* with ProcessPoolExecutor(max_workers=NUM_WORKERS) as executor, and the
\* executor.submit of every batch of the stage.
Submit ==
    /\ pc = "submit"
    /\ worker' = [p \in Workers |-> ForkedWorker]
    /\ task' = [i \in Workers |-> [status |-> "pending", exc |-> "", value |-> <<>>]]
    /\ completed' = <<>>
    /\ collected' = 0
    /\ pc' = "collect"
    /\ UNCHANGED <<cfg, stage, main_random, main_fake, patient_batches,
                   encounter_batches, returned, lists, allergies, written, exception>>

\* An idle process of the pool takes the oldest work item of the call queue.
StartTask(p) ==
    /\ pc \in {"collect", "unwind"}
    /\ worker[p].task = 0
    /\ \E i \in Workers :
          /\ task[i].status = "pending"
          /\ \A j \in 1..(i - 1) : task[j].status # "pending"
          /\ task' = [task EXCEPT ![i].status = "running"]
          /\ worker' = [worker EXCEPT ![p].task = i]
    /\ UNCHANGED <<cfg, pc, stage, main_random, main_fake, patient_batches,
                   encounter_batches, completed, collected, returned, lists,
                   allergies, written, exception>>

\* The future of task i, run by process p, completes with outcome o.
Complete(p, i, o) ==
    /\ task' = [task EXCEPT ![i] =
                  IF o.exc # ""
                  THEN [status |-> "raised", exc |-> o.exc, value |-> <<>>]
                  ELSE [status |-> "returned", exc |-> "", value |-> o.value]]
    /\ worker' = [worker EXCEPT ![p] = [task |-> 0, rnd |-> o.rnd, fk |-> o.fk]]
    /\ returned' = IF o.exc # "" THEN returned
                   ELSE [returned EXCEPT ![stage] = Append(@, o.value)]
    /\ completed' = Append(completed, i)

\* The process runs the task's function to its end: the future completes
\* with the value returned or the exception raised.
FinishTask(p) ==
    /\ pc \in {"collect", "unwind"}
    /\ worker[p].task # 0
    /\ Complete(p, worker[p].task, RunTask(stage, worker[p].task, worker[p]))
    /\ UNCHANGED <<cfg, pc, stage, main_random, main_fake, patient_batches,
                   encounter_batches, collected, lists, allergies, written, exception>>

\* for future in as_completed(...): future.result() returned; extend.
Collect ==
    /\ pc = "collect"
    /\ collected < Len(completed)
    /\ task[completed[collected + 1]].status = "returned"
    /\ collected' = collected + 1
    /\ IF stage = 1
       THEN /\ all_encounters' = all_encounters \o task[completed[collected + 1]].value[1]
            /\ all_diagnoses' = all_diagnoses \o task[completed[collected + 1]].value[2]
            /\ UNCHANGED <<all_med_admins, all_lab_results, all_vital_signs,
                           all_nursing_assessments>>
       ELSE /\ all_med_admins' =
                  IF stage = 2
                  THEN all_med_admins \o task[completed[collected + 1]].value
                  ELSE all_med_admins
            /\ all_lab_results' =
                  IF stage = 3
                  THEN all_lab_results \o task[completed[collected + 1]].value
                  ELSE all_lab_results
            /\ all_vital_signs' =
                  IF stage = 4
                  THEN all_vital_signs \o task[completed[collected + 1]].value
                  ELSE all_vital_signs
            /\ all_nursing_assessments' =
                  IF stage = 5
                  THEN all_nursing_assessments \o task[completed[collected + 1]].value
                  ELSE all_nursing_assessments
            /\ UNCHANGED <<all_encounters, all_diagnoses>>
    /\ UNCHANGED <<cfg, pc, stage, main_random, main_fake, patient_batches,
                   encounter_batches, worker, task, completed, returned, allergies,
                   written, exception>>

\* A for loop that skips a future whose result() raises.
ResultSkipped ==
    /\ pc = "collect"
    /\ collected < Len(completed)
    /\ task[completed[collected + 1]].status = "raised"
    /\ collected' = collected + 1
    /\ UNCHANGED <<cfg, pc, stage, main_random, main_fake, patient_batches,
                   encounter_batches, worker, task, completed, returned, lists,
                   allergies, written, exception>>

\* future.result() raises: the exception leaves the for loop and enters the
\* with statement's __exit__, which waits for the pool.
ResultRaises ==
    /\ pc = "collect"
    /\ collected < Len(completed)
    /\ task[completed[collected + 1]].status = "raised"
    /\ exception' = task[completed[collected + 1]].exc
    /\ pc' = "unwind"
    /\ UNCHANGED <<cfg, stage, main_random, main_fake, patient_batches,
                   encounter_batches, pool, returned, lists, allergies, written>>

\* executor.shutdown(wait=True) is over and the exception ends main().
Abort ==
    /\ pc = "unwind"
    /\ \A i \in Workers : task[i].status \in {"returned", "raised"}
    /\ pc' = "failed"
    /\ UNCHANGED <<cfg, stage, main_random, main_fake, patient_batches,
                   encounter_batches, pool, returned, lists, allergies, written,
                   exception>>

\* A with block left as soon as one future has been yielded.
ExitPoolEarly ==
    /\ pc = "collect"
    /\ collected >= 1
    /\ pc' = IF stage = 1 THEN "sort_encounters"
             ELSE IF stage < 5 THEN "submit" ELSE "allergies"
    /\ stage' = IF stage \in 2..4 THEN stage + 1 ELSE stage
    /\ UNCHANGED <<cfg, main_random, main_fake, patient_batches, encounter_batches,
                   pool, returned, lists, allergies, written, exception>>

\* The for loop has yielded every future and the with block is left.
ExitPool ==
    /\ pc = "collect"
    /\ collected = NUM_WORKERS
    /\ pc' = IF stage = 1 THEN "sort_encounters"
             ELSE IF stage < 5 THEN "submit" ELSE "allergies"
    /\ stage' = IF stage \in 2..4 THEN stage + 1 ELSE stage
    /\ UNCHANGED <<cfg, main_random, main_fake, patient_batches, encounter_batches,
                   pool, returned, lists, allergies, written, exception>>

\* main(), lines 545-547.
SortEncounters ==
    /\ pc = "sort_encounters"
    /\ all_encounters' = SortByEncounterId(all_encounters)
    /\ all_diagnoses' = SortByDiagnosisId(all_diagnoses)
    /\ pc' = "encounter_batches"
    /\ UNCHANGED <<cfg, stage, main_random, main_fake, patient_batches,
                   encounter_batches, pool, returned, all_med_admins, all_lab_results,
                   all_vital_signs, all_nursing_assessments, allergies, written,
                   exception>>

\* main(), lines 549-555.
CreateEncounterBatches ==
    /\ pc = "encounter_batches"
    /\ encounter_batches' = EncounterBatches(all_encounters, NUM_WORKERS)
    /\ stage' = 2
    /\ pc' = "submit"
    /\ UNCHANGED <<cfg, main_random, main_fake, patient_batches, pool, returned, lists,
                   allergies, written, exception>>

\* The parent's state once generate_allergies() has returned a.
AllergiesDone(a) ==
    /\ allergies' = a.out
    /\ main_random' = a.rnd
    /\ main_fake' = a.fk

\* main(), line 599.
GenerateAllergies ==
    /\ pc = "allergies"
    /\ AllergiesDone(generate_allergies(NUM_PATIENTS, main_random, main_fake))
    /\ pc' = "sort_all"
    /\ UNCHANGED <<cfg, stage, patient_batches, encounter_batches, pool, returned,
                   lists, written, exception>>

\* main(), lines 601-605.
SortAll ==
    /\ pc = "sort_all"
    /\ all_med_admins' = SortByAdminId(all_med_admins)
    /\ all_lab_results' = SortByLabId(all_lab_results)
    /\ all_vital_signs' = SortByVitalId(all_vital_signs)
    /\ all_nursing_assessments' = SortByAssessmentId(all_nursing_assessments)
    /\ pc' = "write"
    /\ UNCHANGED <<cfg, stage, main_random, main_fake, patient_batches,
                   encounter_batches, pool, returned, all_encounters, all_diagnoses,
                   allergies, written, exception>>

\* main(), lines 607-615: the next write_csv call.
WriteCsv ==
    /\ pc = "write"
    /\ written' = Append(written, FILES[Len(written) + 1])
    /\ pc' = IF Len(written) + 1 = Len(FILES) THEN "done" ELSE "write"
    /\ UNCHANGED <<cfg, stage, main_random, main_fake, patient_batches,
                   encounter_batches, pool, returned, lists, allergies, exception>>

\* ------------------------------------------ the sequential script
\* scripts/generate_encounters.py: one `random` stream and one Faker stream
\* seeded at import, one counter per entity type starting at 1.
generate_encounters ==
    PatientLoop([rnd |-> SeedOf(SEED, rng_variant),
                 lfk |-> SeedOf(SEED, rng_variant),
                 fk |-> SeedOf(SEED, rng_variant),
                 encounter_id |-> 1,
                 diagnosis_id |-> 1,
                 encounters |-> <<>>,
                 diagnoses |-> <<>>],
                1, NUM_PATIENTS + 1, FALSE)

generate_medication_administrations(encounters, rnd) ==
    MedEncounterLoop([rnd |-> rnd, id |-> 1, out |-> <<>>], encounters, 1, FALSE)

generate_lab_results(encounters, rnd) ==
    LabEncounterLoop([rnd |-> rnd, id |-> 1, out |-> <<>>], encounters, 1)

generate_vital_signs(encounters, rnd) ==
    VitalEncounterLoop([rnd |-> rnd, id |-> 1, out |-> <<>>], encounters, 1)

generate_nursing_assessments(encounters, rnd) ==
    NursingEncounterLoop([rnd |-> rnd, id |-> 1, out |-> <<>>], encounters, 1)

\* main() of the sequential script, lines 545-577: what it hands to write_csv.
SequentialOutput ==
    LET g == generate_encounters
        med_admins == generate_medication_administrations(g.encounters, g.rnd)
        lab_results == generate_lab_results(g.encounters, med_admins.rnd)
        vital_signs == generate_vital_signs(g.encounters, lab_results.rnd)
        nursing_assessments == generate_nursing_assessments(g.encounters, vital_signs.rnd)
    IN <<g.encounters, g.diagnoses, med_admins.out, lab_results.out, vital_signs.out,
         nursing_assessments.out>>

\* A run of the sequential script, made once the parallel script has
\* finished.
RunSequential ==
    /\ pc \in {"done", "exited"}
    /\ sequential_output' = SequentialOutput
    /\ UNCHANGED <<NUM_PATIENTS, NUM_WORKERS, rng_variant, local_fake_seed, clock,
                   pc, stage, main_random, main_fake, patient_batches,
                   encounter_batches, pool, returned, lists, allergies, written,
                   exception, data, tester, labs, meds>>

\* main() has returned and the process exited: time passes before the next
\* run of either script.
TimePasses ==
    /\ pc \in {"done", "exited"}
    /\ clock < MaxClock
    /\ clock' = clock + 1
    /\ pc' = "exited"
    /\ UNCHANGED <<NUM_PATIENTS, NUM_WORKERS, rng_variant, local_fake_seed,
                   sequential_output, stage, main_random, main_fake, patient_batches,
                   encounter_batches, pool, returned, lists, allergies, written,
                   exception, data, tester, labs, meds>>

Next ==
    \/ CreatePatientBatches
    \/ Submit
    \/ \E p \in Workers : StartTask(p)
    \/ \E p \in Workers : FinishTask(p)
    \/ Collect
    \/ ResultRaises
    \/ Abort
    \/ ExitPool
    \/ SortEncounters
    \/ CreateEncounterBatches
    \/ GenerateAllergies
    \/ SortAll
    \/ WriteCsv
    \/ TimePasses
    \/ RunSequential

Spec == Init /\ [][Next]_vars

\* ------------------------------------------ scripts/generate_data.py
\* The values random.randint(100000, 999999) and
\* random.randint(1000000000, 9999999999) can return: the lowest
\* MaxIdentifiers of each range (ten-digit NPI values do not fit 32-bit
\* integers, so the NPI range is counted from 1).
MrnDraws == 100000..(100000 + MaxIdentifiers - 1)
NpiDraws == 1..MaxIdentifiers

\* f"MRN{n}" and f"{n}": the prefix and the digits.
generate_mrn(n) == <<"MRN", n>>
generate_npi(n) == <<"", n>>

\* The parallel and sequential encounter scripts are not running.
GeneratorIdle ==
    /\ NUM_PATIENTS = 1
    /\ NUM_WORKERS = 1
    /\ rng_variant = 0
    /\ local_fake_seed = "seeds"
    /\ GeneratorStart
    /\ LabIdle
    /\ MedIdle

generator == <<NUM_PATIENTS, NUM_WORKERS, rng_variant, local_fake_seed, clock,
               sequential_output, pc, stage, main_random, main_fake, patient_batches,
               encounter_batches, pool, returned, lists, allergies, written,
               exception, labs, meds>>

DataInit ==
    /\ num_patients \in 1..MaxPatients
    /\ num_providers \in 1..MaxPatients
    /\ data_pc = "patients"
    /\ mrn = <<>>
    /\ mrns = {}
    /\ patients = <<>>
    /\ npi = <<>>
    /\ npis = {}
    /\ providers = <<>>
    /\ GeneratorIdle
    /\ TesterIdle

\* generate_patients(), line 150: mrn = generate_mrn().
DrawMrn ==
    /\ data_pc = "patients"
    /\ \E n \in MrnDraws : mrn' = generate_mrn(n)
    /\ data_pc' = "mrn_drawn"
    /\ UNCHANGED <<num_patients, num_providers, mrns, patients, npi, npis, providers,
                   generator, tester>>

\* A retry that records the MRN it draws.
RetryMrnRecording ==
    /\ data_pc = "mrn_drawn"
    /\ mrn \in mrns
    /\ \E n \in MrnDraws : mrn' = generate_mrn(n)
    /\ mrns' = mrns \cup {mrn'}
    /\ UNCHANGED <<num_patients, num_providers, data_pc, patients, npi, npis,
                   providers, generator, tester>>

\* Lines 151-152: while mrn in mrns: mrn = generate_mrn().
RetryMrn ==
    /\ data_pc = "mrn_drawn"
    /\ mrn \in mrns
    /\ \E n \in MrnDraws : mrn' = generate_mrn(n)
    /\ UNCHANGED <<num_patients, num_providers, data_pc, mrns, patients, npi, npis,
                   providers, generator, tester>>

\* The loop exit taken whatever mrn is: no membership test.
AppendPatientUnchecked ==
    /\ data_pc = "mrn_drawn"
    /\ mrns' = mrns \cup {mrn}
    /\ patients' = Append(patients, [patient_id |-> Len(patients) + 1, mrn |-> mrn])
    /\ data_pc' = IF Len(patients) + 1 = num_patients THEN "providers" ELSE "patients"
    /\ UNCHANGED <<num_patients, num_providers, mrn, npi, npis, providers, generator, tester>>

\* Lines 151-191: the while loop is left, the MRN recorded and the patient
\* appended; after the last patient generate_patients() returns and main()
\* calls generate_providers().
AppendPatient ==
    /\ data_pc = "mrn_drawn"
    /\ mrn \notin mrns
    /\ mrns' = mrns \cup {mrn}
    /\ patients' = Append(patients, [patient_id |-> Len(patients) + 1, mrn |-> mrn])
    /\ data_pc' = IF Len(patients) + 1 = num_patients THEN "providers" ELSE "patients"
    /\ UNCHANGED <<num_patients, num_providers, mrn, npi, npis, providers, generator, tester>>

\* generate_providers(), line 202: npi = generate_npi().
DrawNpi ==
    /\ data_pc = "providers"
    /\ \E n \in NpiDraws : npi' = generate_npi(n)
    /\ data_pc' = "npi_drawn"
    /\ UNCHANGED <<num_patients, num_providers, mrn, mrns, patients, npis, providers,
                   generator, tester>>

\* Lines 203-204: while npi in npis: npi = generate_npi().
RetryNpi ==
    /\ data_pc = "npi_drawn"
    /\ npi \in npis
    /\ \E n \in NpiDraws : npi' = generate_npi(n)
    /\ UNCHANGED <<num_patients, num_providers, data_pc, mrn, mrns, patients, npis,
                   providers, generator, tester>>

\* Lines 203-224: the NPI is recorded and the provider appended; after the
\* last provider generate_providers() returns.  The rest of main() (units,
\* medications, the four files) changes neither list.
AppendProvider ==
    /\ data_pc = "npi_drawn"
    /\ npi \notin npis
    /\ npis' = npis \cup {npi}
    /\ providers' = Append(providers, [provider_id |-> Len(providers) + 1, npi |-> npi])
    /\ data_pc' = IF Len(providers) + 1 = num_providers THEN "generated" ELSE "providers"
    /\ UNCHANGED <<num_patients, num_providers, mrn, mrns, patients, npi, generator, tester>>

DataNext ==
    \/ DrawMrn
    \/ RetryMrn
    \/ AppendPatient
    \/ DrawNpi
    \/ RetryNpi
    \/ AppendProvider

DataSpec == DataInit /\ [][DataNext]_vars

\* ------------------------------------------------------ test_queries.py
\* Lines the user may type: the exit command in three letter cases, the
\* same behind a space, an empty line, a line of spaces, and a query.
Lines == {"exit", "EXIT", "Exit", " exit", "", "  ", "SELECT 1"}

\* str.lower() and str.strip() on those lines.
Lower(line) ==
    IF line \in {"EXIT", "Exit"} THEN "exit"
    ELSE IF line = "SELECT 1" THEN "select 1" ELSE line

Strip(line) ==
    IF line = " exit" THEN "exit" ELSE IF line = "  " THEN "" ELSE line

\* The sequences of at most n lines.
Inputs(n) == UNION {[1..k -> Lines] : k \in 0..n}

TesterInit ==
    /\ conn = "none"
    /\ query_pc = "connect"
    /\ batch_output = <<>>
    /\ stdin \in Inputs(MaxInput)
    /\ printed = ""
    /\ GeneratorIdle
    /\ DataIdle

\* Lines 11-15: psycopg2.connect(...) returns a connection, or raises and
\* the script ends with a traceback.
Connect ==
    /\ query_pc = "connect"
    /\ \E connected \in BOOLEAN :
          /\ conn' = IF connected THEN "open" ELSE "none"
          /\ query_pc' = IF connected THEN "batch" ELSE "died"
    /\ UNCHANGED <<batch_output, stdin, printed, generator, data>>

\* One pass of the batch loop with no try: an exception of run_query ends
\* the script.
RunQueryUncaught ==
    /\ query_pc = "batch"
    /\ \E raised \in BOOLEAN :
          /\ batch_output' =
                Append(batch_output,
                       [query |-> Len(batch_output) + 1,
                        printed |-> IF raised THEN "Error" ELSE "rows"])
          /\ query_pc' = IF raised THEN "died"
                         ELSE IF Len(batch_output) + 1 = NUM_QUERIES THEN "prompt"
                         ELSE "batch"
          /\ printed' = IF ~raised /\ Len(batch_output) + 1 = NUM_QUERIES
                        THEN "INTERACTIVE MODE" ELSE printed
    /\ UNCHANGED <<conn, stdin, generator, data>>

\* Lines 123-127, one pass of `for query, title in queries`: run_query
\* prints the rows or raises, and the except clause prints the error.  After
\* the last pass lines 130-133 print the banner of the interactive mode.
RunQuery ==
    /\ query_pc = "batch"
    /\ \E raised \in BOOLEAN :
          batch_output' =
             Append(batch_output,
                    [query |-> Len(batch_output) + 1,
                     printed |-> IF raised THEN "Error" ELSE "rows"])
    /\ query_pc' = IF Len(batch_output) + 1 = NUM_QUERIES THEN "prompt" ELSE "batch"
    /\ printed' = IF Len(batch_output) + 1 = NUM_QUERIES
                  THEN "INTERACTIVE MODE" ELSE printed
    /\ UNCHANGED <<conn, stdin, generator, data>>

\* Lines 137-139 and 148: the line read is the exit command; the loop is
\* left and the connection closed.
Exit ==
    /\ query_pc = "prompt"
    /\ stdin # <<>>
    /\ Lower(Head(stdin)) = "exit"
    /\ stdin' = Tail(stdin)
    /\ printed' = "sql> "
    /\ conn' = "closed"
    /\ query_pc' = "end"
    /\ UNCHANGED <<batch_output, generator, data>>

\* Lines 137-141: a line that is empty once stripped; nothing is run.
BlankLine ==
    /\ query_pc = "prompt"
    /\ stdin # <<>>
    /\ Lower(Head(stdin)) # "exit"
    /\ Strip(Head(stdin)) = ""
    /\ stdin' = Tail(stdin)
    /\ printed' = "sql> "
    /\ UNCHANGED <<conn, query_pc, batch_output, generator, data>>

\* Lines 137-146: the line is run as a query; its rows are printed, or it
\* raises and the except clause prints the error.
InteractiveQuery ==
    /\ query_pc = "prompt"
    /\ stdin # <<>>
    /\ Lower(Head(stdin)) # "exit"
    /\ Strip(Head(stdin)) # ""
    /\ stdin' = Tail(stdin)
    /\ \E raised \in BOOLEAN : printed' = IF raised THEN "Error" ELSE "rows"
    /\ UNCHANGED <<conn, query_pc, batch_output, generator, data>>

\* Lines 137 and 145-146: no line is left, input() raises EOFError, which
\* the except clause prints.
EndOfInput ==
    /\ query_pc = "prompt"
    /\ stdin = <<>>
    /\ printed' = "Error"
    /\ UNCHANGED <<conn, query_pc, batch_output, stdin, generator, data>>

TesterNext ==
    \/ Connect
    \/ RunQuery
    \/ Exit
    \/ BlankLine
    \/ InteractiveQuery
    \/ EndOfInput

TesterSpec == TesterInit /\ [][TesterNext]_vars

\* ------------------------------------------------------ vocabulary
RECURSIVE Flatten(_)
Flatten(ss) == IF ss = <<>> THEN <<>> ELSE Head(ss) \o Flatten(Tail(ss))

Range(s) == {s[i] : i \in DOMAIN s}

Keys(s, key) == {s[i][key] : i \in DOMAIN s}

DistinctKeys(s, key) == Cardinality(Keys(s, key)) = Len(s)

IsSortedBy(s, key) == \A i \in 1..(Len(s) - 1) : s[i][key] <= s[i + 1][key]

Count(s, x) == Cardinality({i \in DOMAIN s : s[i] = x})

\* a and b hold the same records, each as many times.
SameRecords(a, b) ==
    /\ Len(a) = Len(b)
    /\ Range(a) = Range(b)
    /\ \/ Cardinality(Range(a)) = Len(a)
       \/ \A x \in Range(a) : Count(a, x) = Count(b, x)

\* The futures of the current stage exist.
Submitted == pc \in {"collect", "unwind", "failed"}

Returned(i) == task[i].status = "returned"

Raised == Submitted /\ \E i \in DOMAIN task : task[i].status = "raised"

\* A process that has run no task: its streams are as seeded at import.
Imported ==
    [task |-> 0, rnd |-> SeedOf(SEED, rng_variant), fk |-> SeedOf(SEED, rng_variant)]

\* The run in which task i of every stage is run by a process of its own
\* and the futures complete in the order they were submitted.
InOrderStage1 ==
    [i \in Workers |->
        process_patient_batch(PatientBatches(NUM_PATIENTS, NUM_WORKERS)[i], Imported).value]

InOrderEncounters ==
    SortByEncounterId(Flatten([i \in Workers |-> InOrderStage1[i][1]]))

InOrderDiagnoses ==
    SortByDiagnosisId(Flatten([i \in Workers |-> InOrderStage1[i][2]]))

InOrderBatches == EncounterBatches(InOrderEncounters, NUM_WORKERS)

InOrderOutput ==
    <<InOrderEncounters,
      InOrderDiagnoses,
      SortByAdminId(Flatten([i \in Workers |->
          process_med_admin_batch(InOrderBatches[i], Imported).value])),
      SortByLabId(Flatten([i \in Workers |->
          process_lab_batch(InOrderBatches[i], Imported).value])),
      SortByVitalId(Flatten([i \in Workers |->
          process_vitals_batch(InOrderBatches[i], Imported).value])),
      SortByAssessmentId(Flatten([i \in Workers |->
          process_nursing_batch(InOrderBatches[i], Imported).value]))>>

\* ------------------------------------------------------------ claims

\* C1: for every worker count, W = 1 included, the parallel script's output
\* for each entity type equals the sequential script's output record for
\* record.  Refuted: the parallel tasks seed their streams with 12345 + the
\* partition's offset and start the Stage-2 IDs at a multiple of the first
\* encounter_id, the sequential script draws from the stream of 12345 and
\* counts from 1.
C1_ParallelEqualsSequential ==
    pc = "done" => lists = SequentialOutput

\* C2: two runs with the same seed and the same worker count write the same
\* rows in the same order, whatever order the tasks complete in: every
\* finished run's output is the output of the run whose tasks complete in
\* submission order.  Refuted: see C7 and C4.
C2_OutputIndependentOfCompletionOrder ==
    pc = "done" => lists = InOrderOutput

\* C3: the encounter_id values returned by the Stage-1 tasks are pairwise
\* distinct and so are the diagnosis_id values; the IDs of a batch starting
\* at patient s start at (s-1)*5+1 and (s-1)*25+1 and stay below the base
\* IDs of every batch that starts where it ends or later.
C3_Stage1IdsDistinct ==
    /\ DistinctKeys(Flatten([k \in DOMAIN returned[1] |-> returned[1][k][1]]),
                    "encounter_id")
    /\ DistinctKeys(Flatten([k \in DOMAIN returned[1] |-> returned[1][k][2]]),
                    "diagnosis_id")
    /\ (stage = 1 /\ Submitted) =>
          \A i \in Workers : Returned(i) =>
             /\ \A e \in Range(task[i].value[1]) :
                   /\ e.encounter_id >= (patient_batches[i][1] - 1) * 5 + 1
                   /\ \A j \in Workers :
                         patient_batches[j][1] >= patient_batches[i][2] =>
                            e.encounter_id < (patient_batches[j][1] - 1) * 5 + 1
             /\ \A d \in Range(task[i].value[2]) :
                   /\ d.diagnosis_id >= (patient_batches[i][1] - 1) * 25 + 1
                   /\ \A j \in Workers :
                         patient_batches[j][1] >= patient_batches[i][2] =>
                            d.diagnosis_id < (patient_batches[j][1] - 1) * 25 + 1

\* Two Stage-1 tasks have returned encounters and diagnoses.
C3_Witness ==
    /\ stage = 1
    /\ Submitted
    /\ NUM_WORKERS >= 2
    /\ \A i \in Workers : Returned(i) /\ task[i].value[1] # <<>> /\ task[i].value[2] # <<>>

\* C4: in the merged Stage-2 outputs the primary keys admin_id, lab_id,
\* vital_id and assessment_id are pairwise distinct, whatever the slicing
\* and however many records a slice produces.  Refuted: a slice whose
\* encounters produce more records than the multiplier allows runs into
\* the IDs of the next slice.
C4_Stage2IdsDistinct ==
    /\ DistinctKeys(all_med_admins, "admin_id")
    /\ DistinctKeys(all_lab_results, "lab_id")
    /\ DistinctKeys(all_vital_signs, "vital_id")
    /\ DistinctKeys(all_nursing_assessments, "assessment_id")

\* C5: Stage 1 builds exactly W half-open patient ranges, contiguous and
\* disjoint, the first W-1 of size P // W, the last one ending at P + 1,
\* W > P included; every patient id lies in exactly one range and the task
\* of a range returns encounters of exactly the patients of its range.
C5_PatientRangesPartition ==
    pc # "start" =>
       /\ Len(patient_batches) = NUM_WORKERS
       /\ patient_batches[1][1] = 1
       /\ patient_batches[NUM_WORKERS][2] = NUM_PATIENTS + 1
       /\ \A k \in Workers : patient_batches[k][1] <= patient_batches[k][2]
       /\ \A k \in 1..(NUM_WORKERS - 1) :
             /\ patient_batches[k][2] = patient_batches[k + 1][1]
             /\ patient_batches[k][2] - patient_batches[k][1]
                   = NUM_PATIENTS \div NUM_WORKERS
       /\ \A id \in 1..NUM_PATIENTS :
             Cardinality({k \in Workers : /\ patient_batches[k][1] <= id
                                          /\ id < patient_batches[k][2]}) = 1
       /\ (stage = 1 /\ Submitted) =>
             \A k \in Workers : Returned(k) =>
                Keys(task[k].value[1], "patient_id")
                   = patient_batches[k][1]..(patient_batches[k][2] - 1)

\* More workers than patients, and every Stage-1 task has returned.
C5_Witness ==
    /\ NUM_WORKERS > NUM_PATIENTS
    /\ stage = 1
    /\ pc = "collect"
    /\ \A k \in Workers : Returned(k)

\* C6: Stage 2 splits the merged encounter list, sorted by encounter_id,
\* into exactly W slices whose concatenation in slice order is the whole
\* list, the first W-1 of len // W encounters; the slices stay the same
\* from the medication stage to the nursing stage.
C6_EncounterSlicesPartition ==
    /\ [](stage >= 2 =>
            /\ Len(encounter_batches) = NUM_WORKERS
            /\ IsSortedBy(all_encounters, "encounter_id")
            /\ Flatten(encounter_batches) = all_encounters
            /\ \A k \in 1..(NUM_WORKERS - 1) :
                  Len(encounter_batches[k]) = Len(all_encounters) \div NUM_WORKERS)
    /\ [][stage >= 2 => encounter_batches' = encounter_batches]_vars

\* The nursing stage, the last of the four, runs on slices of which the
\* last one absorbed a remainder.
C6_Witness ==
    /\ stage = 5
    /\ pc = "collect"
    /\ NUM_WORKERS >= 2
    /\ Len(encounter_batches[NUM_WORKERS]) > Len(encounter_batches[1])
    /\ \E i \in Workers : Returned(i)

\* C7: the result of a task is a function of its partition and the seed:
\* it is what the task returns in a process that has run no task before.
\* Refuted: generate_encounter_number() draws from the module-level `fake`,
\* which no task seeds, so a process's second task continues the stream
\* where its first task left it.
C7_TaskResultIndependentOfProcess ==
    (Submitted /\ stage \in Stages) =>
       \A i \in Workers : Returned(i) => task[i].value = RunTask(stage, i, Imported).value

\* C8: no task of a stage is submitted before every task of the stages
\* before it has completed, and, for Stage 1, before its results are merged
\* and sorted; no file is written before every task of every stage has
\* completed.
C8_StagesSequential ==
    /\ \A s \in Stages :
          (stage = s /\ Submitted) =>
             /\ \A before \in 1..(s - 1) : Len(returned[before]) = NUM_WORKERS
             /\ s >= 2 =>
                   /\ IsSortedBy(all_encounters, "encounter_id")
                   /\ IsSortedBy(all_diagnoses, "diagnosis_id")
                   /\ SameRecords(all_encounters,
                         Flatten([k \in DOMAIN returned[1] |-> returned[1][k][1]]))
                   /\ SameRecords(all_diagnoses,
                         Flatten([k \in DOMAIN returned[1] |-> returned[1][k][2]]))
    /\ written # <<>> =>
          /\ \A s \in Stages : Len(returned[s]) = NUM_WORKERS
          /\ \A i \in DOMAIN task : Returned(i)

\* The first file is written after two tasks per stage.
C8_Witness ==
    /\ Len(written) = 1
    /\ NUM_WORKERS >= 2

\* C9: if a task of a stage raises, main() fails with that exception: the
\* for loop still has the failed future to yield or main() is unwinding or
\* has failed with an exception a task of the stage raised; from then on no
\* stage is submitted, no finished task is run again, no list is sorted and
\* no file is written.
C9_FailFast ==
    /\ [](Raised =>
            /\ written = <<>>
            /\ pc = "collect" => collected < Len(completed)
            /\ pc # "collect" => \E i \in DOMAIN task :
                                    /\ task[i].status = "raised"
                                    /\ exception = task[i].exc)
    /\ [](pc = "failed" => Raised /\ written = <<>>)
    /\ [][Raised =>
            /\ stage' = stage
            /\ pc' \in {"collect", "unwind", "failed"}
            /\ \A i \in DOMAIN task :
                  task[i].status \in {"returned", "raised"} => task'[i] = task[i]]_vars

\* main() has failed with the IndexError of a Stage-2 task.
C9_Witness ==
    /\ pc = "failed"
    /\ stage = 2
    /\ exception = "IndexError"
    /\ written = <<>>

\* C10: every list handed to write_csv is sorted in non-decreasing order
\* of its primary key and holds exactly the records the tasks of its stage
\* returned, each as many times as it was returned.
C10_WrittenListsSortedAndComplete ==
    pc \in {"write", "done"} =>
       /\ IsSortedBy(all_encounters, "encounter_id")
       /\ IsSortedBy(all_diagnoses, "diagnosis_id")
       /\ IsSortedBy(all_med_admins, "admin_id")
       /\ IsSortedBy(all_lab_results, "lab_id")
       /\ IsSortedBy(all_vital_signs, "vital_id")
       /\ IsSortedBy(all_nursing_assessments, "assessment_id")
       /\ SameRecords(all_encounters,
             Flatten([k \in DOMAIN returned[1] |-> returned[1][k][1]]))
       /\ SameRecords(all_diagnoses,
             Flatten([k \in DOMAIN returned[1] |-> returned[1][k][2]]))
       /\ SameRecords(all_med_admins, Flatten(returned[2]))
       /\ SameRecords(all_lab_results, Flatten(returned[3]))
       /\ SameRecords(all_vital_signs, Flatten(returned[4]))
       /\ SameRecords(all_nursing_assessments, Flatten(returned[5]))

\* The lists are about to be written and the medication tasks completed
\* in the reverse of their submission order.
C10_Witness ==
    /\ pc = "write"
    /\ Len(returned[2]) >= 2
    /\ returned[2][1] # <<>>
    /\ returned[2][2] # <<>>
    /\ returned[2][1][1].admin_id > returned[2][2][1].admin_id

\* The (patient_id, encounter_id) pairs of a list of encounters, in order:
\* the k-th pair of patient p is its k-th encounter.
EncounterIds(encounters) ==
    [k \in DOMAIN encounters |->
        <<encounters[k].patient_id, encounters[k].encounter_id>>]

\* The (encounter_id, diagnosis_id) pairs of a list of diagnoses, in order.
DiagnosisIds(diagnoses) ==
    [k \in DOMAIN diagnoses |->
        <<diagnoses[k].encounter_id, diagnoses[k].diagnosis_id>>]

\* C11: for a fixed seed and worker count the encounter_id of the k-th
\* encounter of each patient and the diagnosis_id of each of its diagnoses do
\* not depend on which process ran a Stage-1 task, on what that process ran
\* before, or on the order the tasks completed in: every returned task holds
\* the IDs it holds when run first by a process of its own, and the merged
\* and sorted lists hold the IDs of the run that completes in submission
\* order.
C11_Stage1IdsIndependentOfExecution ==
    /\ (stage = 1 /\ Submitted) =>
          \A i \in DOMAIN task :
             Returned(i) =>
                /\ EncounterIds(task[i].value[1])
                      = EncounterIds(RunTask(1, i, Imported).value[1])
                /\ DiagnosisIds(task[i].value[2])
                      = DiagnosisIds(RunTask(1, i, Imported).value[2])
    /\ (stage >= 2 /\ pc # "exited") =>
          /\ EncounterIds(all_encounters) = EncounterIds(InOrderEncounters)
          /\ DiagnosisIds(all_diagnoses) = DiagnosisIds(InOrderDiagnoses)

\* A Stage-1 task has returned encounters that are not the ones it returns
\* when a process of its own runs it.
C11_Witness ==
    /\ stage = 1
    /\ Submitted
    /\ \E i \in DOMAIN task :
          /\ Returned(i)
          /\ task[i].value[1] # <<>>
          /\ task[i].value # RunTask(1, i, Imported).value

\* C12: two runs of the sequential script with the same seed hand the same
\* records, with the same field values and in the same order, to write_csv
\* for every entity type: what the script outputs does not change when it is
\* run later.  Refuted: admit dates are drawn between a start date and
\* datetime.now(), and the status of an encounter compares its discharge
\* date with datetime.now().
C12_SequentialRunsIdentical ==
    [][sequential_output # <<>> => sequential_output' = sequential_output]_vars

\* C13: whatever values the draws return, no two patients built by
\* generate_patients share an MRN and no two providers built by
\* generate_providers share an NPI.
C13_MrnAndNpiUnique ==
    /\ DistinctKeys(patients, "mrn")
    /\ DistinctKeys(providers, "npi")
    /\ mrns = Keys(patients, "mrn")
    /\ npis = Keys(providers, "npi")

\* generate_patients has returned two patients and generate_providers has
\* just drawn an NPI that is already assigned.
C13_Witness ==
    /\ data_pc = "npi_drawn"
    /\ Len(patients) >= 2
    /\ providers # <<>>
    /\ npi \in npis

\* The encounters of the parallel path, merged or still held by a returned
\* Stage-1 task, and those of the sequential script's last run.
ParallelEncounters ==
    Range(all_encounters) \cup
    UNION {Range(returned[1][k][1]) : k \in DOMAIN returned[1]}

SequentialEncounters ==
    IF sequential_output = <<>> THEN {} ELSE Range(sequential_output[1])

\* C14: for every encounter of the sequential script and of a parallel
\* patient-batch task, discharge_date is null exactly when encounter_status
\* is 'Active', and the status is 'Discharged' otherwise.
C14_DischargeDateNullIffActive ==
    \A enc \in ParallelEncounters \cup SequentialEncounters :
        /\ enc.encounter_status \in {"Active", "Discharged"}
        /\ (enc.discharge_date = NoDate) <=> (enc.encounter_status = "Active")

\* Both paths have produced an active and a discharged encounter.
C14_Witness ==
    /\ \E enc \in ParallelEncounters : enc.encounter_status = "Active"
    /\ \E enc \in ParallelEncounters : enc.encounter_status = "Discharged"
    /\ \E enc \in SequentialEncounters : enc.encounter_status = "Active"
    /\ \E enc \in SequentialEncounters : enc.encounter_status = "Discharged"

\* The diagnoses of a list that belong to the encounter enc.
DiagnosesOf(enc, diagnoses) ==
    {d \in Range(diagnoses) : d.encounter_id = enc.encounter_id}

\* Every encounter of the list has a diagnosis; one of them is 'Primary' and
\* every other one is 'Secondary' and has a higher diagnosis_id.
OnePrimaryFirst(encounters, diagnoses) ==
    \A enc \in Range(encounters) :
        \E primary \in DiagnosesOf(enc, diagnoses) :
            /\ primary.diagnosis_type = "Primary"
            /\ \A d \in DiagnosesOf(enc, diagnoses) \ {primary} :
                  /\ d.diagnosis_type = "Secondary"
                  /\ d.diagnosis_id > primary.diagnosis_id

\* C15: every generated encounter has at least one diagnosis, exactly one of
\* its diagnoses is 'Primary', that one has the lowest diagnosis_id, and all
\* the others are 'Secondary'; in the value of every Stage-1 task, in the
\* merged lists and in the sequential script's output.
C15_OnePrimaryDiagnosisFirst ==
    /\ \A k \in DOMAIN returned[1] :
          OnePrimaryFirst(returned[1][k][1], returned[1][k][2])
    /\ OnePrimaryFirst(all_encounters, all_diagnoses)
    /\ sequential_output # <<>> =>
          OnePrimaryFirst(sequential_output[1], sequential_output[2])

\* Both paths have produced an encounter with several diagnoses.
C15_Witness ==
    /\ \E enc \in Range(all_encounters) :
          Cardinality(DiagnosesOf(enc, all_diagnoses)) >= 2
    /\ sequential_output # <<>>
    /\ \E enc \in Range(sequential_output[1]) :
          Cardinality(DiagnosesOf(enc, sequential_output[2])) >= 2

\* The vital signs of the parallel path, merged or held by a returned
\* Stage-4 task, and those of the sequential script's last run.
ParallelVitalSigns ==
    Range(all_vital_signs) \cup UNION {Range(returned[4][k]) : k \in DOMAIN returned[4]}

SequentialVitalSigns ==
    IF sequential_output = <<>> THEN {} ELSE Range(sequential_output[5])

InValidRanges(v) ==
    /\ v.oxygen_saturation \in 85..100
    /\ v.heart_rate \in 40..180
    /\ v.respiratory_rate \in 8..40
    /\ v.blood_pressure_systolic \in 70..200
    /\ v.blood_pressure_diastolic \in 40..120

\* C16: in every vital-sign record of either path oxygen_saturation is within
\* [85, 100], heart_rate within [40, 180], respiratory_rate within [8, 40],
\* systolic within [70, 200] and diastolic within [40, 120]; and so it is
\* whatever integer int(random.gauss(...)) returns, from -MaxGauss to
\* MaxGauss.
C16_VitalSignsWithinRanges ==
    /\ \A v \in ParallelVitalSigns \cup SequentialVitalSigns : InValidRanges(v)
    /\ \A x \in (0 - MaxGauss)..MaxGauss : InValidRanges(ValidRanges(x, x, x, x, x))

\* Both paths have recorded a heart rate drawn below 40 or on it and an
\* oxygen saturation drawn above 100 or on it.
C16_Witness ==
    /\ \E v \in ParallelVitalSigns : v.heart_rate = 40
    /\ \E v \in ParallelVitalSigns : v.oxygen_saturation = 100
    /\ \E v \in SequentialVitalSigns : v.heart_rate = 40
    /\ \E v \in SequentialVitalSigns : v.oxygen_saturation = 100

\* The encounters of a list that a record references by encounter_id.
Referenced(record, encounters) ==
    {enc \in Range(encounters) : enc.encounter_id = record.encounter_id}

\* The records of entity e (3 med admins, 4 labs, 5 vitals, 6 nursing
\* assessments in the order of the output) in the parallel path, merged or
\* held by a returned task of its stage, and in the sequential script's last
\* run.
ParallelRecords(e) ==
    Range(lists[e]) \cup UNION {Range(returned[e - 1][k]) : k \in DOMAIN returned[e - 1]}

SequentialRecords(e) ==
    IF sequential_output = <<>> THEN {} ELSE Range(sequential_output[e])

\* C17: no lab result references an encounter whose encounter_type is not
\* 'Inpatient' or 'Emergency', in the parallel and in the sequential path:
\* Outpatient and Observation encounters get no lab results.
C17_LabsOnlyForInpatientAndEmergency ==
    /\ \A lab \in ParallelRecords(4) :
          \A enc \in Referenced(lab, all_encounters) :
             enc.encounter_type \in {"Inpatient", "Emergency"}
    /\ \A lab \in SequentialRecords(4) :
          \A enc \in Referenced(lab, sequential_output[1]) :
             enc.encounter_type \in {"Inpatient", "Emergency"}

\* Both paths have generated lab results for a population that holds an
\* Outpatient or Observation encounter; every lab task has returned.
C17_Witness ==
    /\ Len(returned[3]) = NUM_WORKERS
    /\ all_lab_results # <<>>
    /\ \E enc \in Range(all_encounters) :
          enc.encounter_type \in {"Outpatient", "Observation"}
    /\ SequentialRecords(4) # {}
    /\ \E enc \in SequentialEncounters :
          enc.encounter_type \in {"Outpatient", "Observation"}

\* C18: every medication administration references an encounter whose
\* encounter_status is 'Discharged', in the parallel and in the sequential
\* path: Active encounters get no medication administrations.
C18_MedAdminsOnlyForDischarged ==
    /\ \A admin \in ParallelRecords(3) :
          \A enc \in Referenced(admin, all_encounters) :
             enc.encounter_status = "Discharged"
    /\ \A admin \in SequentialRecords(3) :
          \A enc \in Referenced(admin, sequential_output[1]) :
             enc.encounter_status = "Discharged"

\* Both paths have generated medication administrations for a population
\* that holds an Active encounter; every medication task has returned.
C18_Witness ==
    /\ Len(returned[2]) = NUM_WORKERS
    /\ all_med_admins # <<>>
    /\ \E enc \in Range(all_encounters) : enc.encounter_status = "Active"
    /\ SequentialRecords(3) # {}
    /\ \E enc \in SequentialEncounters : enc.encounter_status = "Active"

\* C19: in the merged parallel output every diagnosis, medication
\* administration, lab result, vital sign and nursing assessment has the
\* encounter_id of exactly one merged encounter, and every encounter has a
\* patient_id in 1..NUM_PATIENTS, provider ids in 1..NUM_PROVIDERS and a
\* unit id in 1..NUM_UNITS.
C19_ReferentialIntegrity ==
    /\ \A record \in Range(all_diagnoses) \cup ParallelRecords(3) \cup ParallelRecords(4)
                      \cup ParallelRecords(5) \cup ParallelRecords(6) :
          Cardinality(Referenced(record, all_encounters)) = 1
    /\ \A enc \in ParallelEncounters :
          /\ enc.patient_id \in 1..NUM_PATIENTS
          /\ enc.admitting_provider_id \in 1..NUM_PROVIDERS
          /\ enc.attending_provider_id \in 1..NUM_PROVIDERS
          /\ enc.current_unit_id \in 1..NUM_UNITS

\* A finished run with several encounters and records of every entity.
C19_Witness ==
    /\ pc = "done"
    /\ Len(all_encounters) >= 2
    /\ \A e \in 2..6 : lists[e] # <<>>

\* C20: in test_queries.py a failing query does not stop the others.  The
\* queries of the batch are attempted in list order, each pass of the batch
\* loop, raising or not, attempts the next query and goes on to the next
\* pass or, after the last query, to the interactive loop, which is not
\* entered before; and an interactive input that raises has its error
\* printed and is followed by a new prompt.
C20_QueryErrorsIsolated ==
    /\ [](\A k \in DOMAIN batch_output : batch_output[k].query = k)
    /\ [](query_pc \in {"prompt", "end"} => Len(batch_output) = NUM_QUERIES)
    /\ [](query_pc = "batch" => Len(batch_output) < NUM_QUERIES)
    /\ [][query_pc = "batch" =>
             /\ Len(batch_output') = Len(batch_output) + 1
             /\ query_pc' = IF Len(batch_output') = NUM_QUERIES
                            THEN "prompt" ELSE "batch"]_vars
    /\ [][(query_pc = "prompt" /\ printed' = "Error") => query_pc' = "prompt"]_vars

\* The first query of the batch raised, all of them were attempted, and in
\* the interactive loop an input has raised while another line is waiting.
C20_Witness ==
    /\ query_pc = "prompt"
    /\ Len(batch_output) = NUM_QUERIES
    /\ batch_output[1].printed = "Error"
    /\ printed = "Error"
    /\ stdin # <<>>

\* C21: every medication administration of an encounter has an admin_date
\* from the encounter's admit_date to its discharge_date, both included, in
\* the parallel and in the sequential path.  Refuted: the slots of a day are
\* laid out from current_date over 24 hours with no comparison against
\* end_date, so a slot of the last day may fall after the discharge.
C21_AdminDateWithinStay ==
    /\ \A admin \in ParallelRecords(3) :
          \A enc \in Referenced(admin, all_encounters) :
             /\ enc.admit_date <= admin.admin_date
             /\ admin.admin_date <= enc.discharge_date
    /\ \A admin \in SequentialRecords(3) :
          \A enc \in Referenced(admin, sequential_output[1]) :
             /\ enc.admit_date <= admin.admin_date
             /\ admin.admin_date <= enc.discharge_date

\* C22: every lab result of an encounter has a collected_date that is not
\* before the encounter's admit_date and not after its end (discharge_date,
\* or now when it is Active), in the parallel and in the sequential path.
\* Refuted: the collection time is 05:00 of the calendar day of
\* current_date, which precedes an admission made later in the day.
C22_CollectedDateWithinStay ==
    /\ \A lab \in ParallelRecords(4) :
          \A enc \in Referenced(lab, all_encounters) :
             /\ enc.admit_date <= lab.collected_date
             /\ lab.collected_date <= EndDate(enc)
    /\ \A lab \in SequentialRecords(4) :
          \A enc \in Referenced(lab, sequential_output[1]) :
             /\ enc.admit_date <= lab.collected_date
             /\ lab.collected_date <= EndDate(enc)

\* ---------------------------------------------- process_lab_batch
\* The encounter whose labs are generated, and the collection time of its
\* first day.
LabEncounterOne == [encounter_id |-> 1]

LabInit ==
    /\ lab_random \in 1..MaxStream
    /\ lab_test = 1
    /\ next_lab_id = 1
    /\ day_lab_results = <<>>
    /\ NUM_PATIENTS = 1
    /\ NUM_WORKERS = 1
    /\ rng_variant = 0
    /\ local_fake_seed = "seeds"
    /\ GeneratorStart
    /\ DataIdle
    /\ TesterIdle
    /\ MedIdle

\* The state of process_lab_batch() after one more test.
LabStep ==
    LabResult([rnd |-> lab_random, id |-> next_lab_id, out |-> day_lab_results],
              LabEncounterOne, 5, lab_test)

\* One pass of `for ... in LAB_TESTS[:8]`.
PanelTest ==
    /\ lab_test \in 1..8
    /\ lab_random' = LabStep.rnd
    /\ next_lab_id' = LabStep.id
    /\ day_lab_results' = LabStep.out
    /\ lab_test' = IF lab_test = 8 THEN 11 ELSE lab_test + 1
    /\ UNCHANGED <<NUM_PATIENTS, NUM_WORKERS, rng_variant, local_fake_seed, clock,
                   sequential_output, pc, stage, main_random, main_fake,
                   patient_batches, encounter_batches, pool, returned, lists,
                   allergies, written, exception, data, tester, meds>>

\* One pass of `for ... in LAB_TESTS[10:15]`, the day of admission being an
\* even day.
CbcTest ==
    /\ lab_test \in 11..15
    /\ lab_random' = LabStep.rnd
    /\ next_lab_id' = LabStep.id
    /\ day_lab_results' = LabStep.out
    /\ lab_test' = lab_test + 1
    /\ UNCHANGED <<NUM_PATIENTS, NUM_WORKERS, rng_variant, local_fake_seed, clock,
                   sequential_output, pc, stage, main_random, main_fake,
                   patient_batches, encounter_batches, pool, returned, lists,
                   allergies, written, exception, data, tester, meds>>

LabNext ==
    \/ PanelTest
    \/ CbcTest

LabSpec == LabInit /\ [][LabNext]_vars

\* The flag of a lab result agrees with its value and reference range.
FlagAgrees(lab) ==
    /\ (lab.abnormal_flag = "Normal") <=>
          /\ lab.reference_range_low <= lab.result_value
          /\ lab.result_value <= lab.reference_range_high
    /\ lab.abnormal_flag \in {"High", "Critical High"} =>
          lab.result_value > lab.reference_range_high
    /\ lab.abnormal_flag \in {"Low", "Critical Low"} =>
          lab.result_value < lab.reference_range_low

\* C23: for every lab result of either path abnormal_flag agrees with the
\* stored value and reference range: 'Normal' exactly when the value is
\* within the range, 'High' or 'Critical High' only above it, 'Low' or
\* 'Critical Low' only below it.  Refuted: the abnormal branches of the
\* metabolic panel draw from ranges that include the bound, and flag the
\* value without comparing it with the bound.
C23_AbnormalFlagAgrees ==
    \A lab \in ParallelRecords(4) \cup SequentialRecords(4) \cup Range(day_lab_results) :
       FlagAgrees(lab)

\* C24: with a non-empty merged encounter list no task of the stages
\* after the first raises, whatever the worker count, and a task given an
\* empty slice returns an empty list.  Refuted: every such task reads
\* encounters_batch[0] before anything else.
C24_Stage2TasksNeverRaise ==
    (Submitted /\ stage >= 2 /\ all_encounters # <<>>) =>
        \A i \in DOMAIN task :
           /\ task[i].status # "raised"
           /\ (task[i].status = "returned" /\ encounter_batches[i] = <<>>) =>
                 task[i].value = <<>>

\* test_queries.py run by an interpreter that always executes the next
\* statement.
FairTesterSpec == TesterSpec /\ WF_vars(TesterNext)

\* C25: the interactive loop always terminates: once the prompt is reached
\* the script eventually leaves the loop with the connection closed, also
\* when the input ends without an exit command.  Refuted: at the end of the
\* input input() raises EOFError, the except clause prints it and the loop
\* reads again, for ever.
C25_InteractiveLoopTerminates ==
    (query_pc = "prompt") ~> (query_pc = "end" /\ conn = "closed")

\* generate_data.py run to completion with fair random draws: the
\* interpreter always executes the next statement, and a value random.randint
\* can return is returned at some time by a loop that draws for ever.
FairDataSpec ==
    /\ DataSpec
    /\ WF_vars(DataNext)
    /\ \A n \in MrnDraws : SF_vars(RetryMrn /\ mrn' = generate_mrn(n))
    /\ \A n \in NpiDraws : SF_vars(RetryNpi /\ npi' = generate_npi(n))

\* C26: when no more records are requested than there are distinct
\* identifier values, generate_patients and generate_providers terminate
\* under fair draws, and a retry (a draw made while the identifier drawn is
\* already assigned) changes neither the set of assigned identifiers nor
\* the list of generated records.
C26_RetryLoopsTerminate ==
    /\ (num_patients <= Cardinality(MrnDraws) /\ num_providers <= Cardinality(NpiDraws))
          => <>(data_pc = "generated")
    /\ [][(data_pc = "mrn_drawn" /\ mrn \in mrns) =>
            (mrns' = mrns /\ patients' = patients /\ data_pc' = data_pc)]_vars
    /\ [][(data_pc = "npi_drawn" /\ npi \in npis) =>
            (npis' = npis /\ providers' = providers /\ data_pc' = data_pc)]_vars

\* The last patient's MRN has been drawn and is already assigned: the loop
\* retries.
C26_Witness ==
    /\ data_pc = "mrn_drawn"
    /\ mrn \in mrns
    /\ num_patients = MaxPatients
    /\ Len(patients) = num_patients - 1

\* The positions in a list of the diagnoses of the encounter enc.
DiagnosisPositions(enc, diagnoses) ==
    {i \in DOMAIN diagnoses : diagnoses[i].encounter_id = enc.encounter_id}

\* Every encounter of the list has 1 to 5 diagnoses, with codes of the
\* catalog that differ pairwise.
DistinctCodes(encounters, diagnoses) ==
    \A enc \in Range(encounters) :
        /\ Cardinality(DiagnosisPositions(enc, diagnoses)) \in 1..5
        /\ \A i \in DiagnosisPositions(enc, diagnoses) :
              /\ diagnoses[i].icd10_code \in Range(DIAGNOSES)
              /\ \A j \in DiagnosisPositions(enc, diagnoses) :
                    i # j => diagnoses[i].icd10_code # diagnoses[j].icd10_code

\* C27: the diagnoses of one encounter number between 1 and 5 and have
\* pairwise distinct icd10_code values of the catalog; in the value of every
\* Stage-1 task, in the merged lists and in the sequential script's output.
C27_DiagnosesDistinctSample ==
    /\ \A k \in DOMAIN returned[1] :
          DistinctCodes(returned[1][k][1], returned[1][k][2])
    /\ DistinctCodes(all_encounters, all_diagnoses)
    /\ sequential_output # <<>> =>
          DistinctCodes(sequential_output[1], sequential_output[2])

\* Both paths have produced an encounter with five diagnoses.
C27_Witness ==
    /\ \E enc \in Range(all_encounters) :
          Cardinality(DiagnosisPositions(enc, all_diagnoses)) = 5
    /\ sequential_output # <<>>
    /\ \E enc \in Range(sequential_output[1]) :
          Cardinality(DiagnosisPositions(enc, sequential_output[2])) = 5

\* The merged lists have been sorted by ID.
MergedSorted == pc = "encounter_batches" \/ stage >= 2

\* The encounter_id, and the diagnosis_id, of each record of a list.
EncounterIdList(encounters) == [k \in DOMAIN encounters |-> encounters[k].encounter_id]
DiagnosisIdList(diagnoses) == [k \in DOMAIN diagnoses |-> diagnoses[k].diagnosis_id]

\* The IDs of a list are start, start + 1, ... are start, start + 1, ...
ConsecutiveFrom(ids, start) == \A i \in DOMAIN ids : ids[i] = start + i - 1

\* Two neighbours of a sorted ID list differ by one, or the second is the
\* base ID of a patient batch.
GapsOnlyAtBases(ids, bases) ==
    \A i \in 1..(Len(ids) - 1) : ids[i + 1] = ids[i] + 1 \/ ids[i + 1] \in bases

\* C28: in the merged, ID-sorted encounter list patient_id is non-decreasing
\* in encounter_id; the encounter_ids and the diagnosis_ids a Stage-1 task
\* returns are consecutive from the base IDs of its patient batch; so in
\* the merged lists an ID gap occurs only before the base ID of a batch.
C28_BatchIdsConsecutive ==
    /\ MergedSorted =>
          \A i, j \in DOMAIN all_encounters :
             i < j => /\ all_encounters[i].encounter_id < all_encounters[j].encounter_id
                      /\ all_encounters[i].patient_id <= all_encounters[j].patient_id
    /\ (stage = 1 /\ Submitted) =>
          \A i \in DOMAIN task :
             Returned(i) =>
                /\ ConsecutiveFrom(EncounterIdList(task[i].value[1]),
                                   base_encounter_id(patient_batches[i]))
                /\ ConsecutiveFrom(DiagnosisIdList(task[i].value[2]),
                                   base_diagnosis_id(patient_batches[i]))
    /\ MergedSorted =>
          /\ GapsOnlyAtBases(EncounterIdList(all_encounters),
                             {base_encounter_id(b) : b \in Range(patient_batches)})
          /\ GapsOnlyAtBases(DiagnosisIdList(all_diagnoses),
                             {base_diagnosis_id(b) : b \in Range(patient_batches)})

\* The sorted merged list holds the encounters of two batches, with a gap
\* between the last ID of the first and the base ID of the second.
C28_Witness ==
    /\ MergedSorted
    /\ \E i \in 1..(Len(all_encounters) - 1) :
          /\ all_encounters[i + 1].encounter_id > all_encounters[i].encounter_id + 1
          /\ all_encounters[i + 1].patient_id > all_encounters[i].patient_id
    /\ \E i \in 1..(Len(all_encounters) - 1) :
          all_encounters[i + 1].encounter_id = all_encounters[i].encounter_id + 1

\* ------------------------------------------ medication administrations
\* The encounter whose medication is administered: discharged after two
\* days.
MedEncounterOne ==
    [encounter_id |-> 1, admit_date |-> 0, discharge_date |-> 2 * HoursPerDay,
     encounter_status |-> "Discharged"]

MedInit ==
    /\ med_script \in {"parallel", "sequential"}
    /\ med_random \in {SeedOf(n, 0) : n \in 1..MaxStream}
    /\ med_pc = "order"
    /\ med_frequency = 0
    /\ med_times_per_day = 1
    /\ med_current_date = 0
    /\ med_time_slot = 0
    /\ med_admin_records = <<>>
    /\ NUM_PATIENTS = 1
    /\ NUM_WORKERS = 1
    /\ rng_variant = 0
    /\ local_fake_seed = "seeds"
    /\ GeneratorStart
    /\ DataIdle
    /\ TesterIdle
    /\ LabIdle

\* What the medication loop does not change.
med_others == <<NUM_PATIENTS, NUM_WORKERS, rng_variant, local_fake_seed, clock,
                sequential_output, pc, stage, main_random, main_fake,
                patient_batches, encounter_batches, pool, returned, lists,
                allergies, written, exception, data, tester, labs, med_script>>

\* frequency = random.choice(frequencies); times_per_day from the dict (the
\* default random.randint(0, 2) drawn for every frequency) or from the
\* if/elif chain (drawn for PRN and STAT); current_date = start_date.
OrderMedication ==
    /\ med_pc = "order"
    /\ med_frequency' = Below(Step(med_random), 9)
    /\ med_random' = Skip(med_random,
                          IF med_script = "parallel" \/ med_frequency' >= 7
                          THEN 2 ELSE 1)
    /\ med_times_per_day' = TimesPerDay(med_frequency', med_random')
    /\ med_current_date' = MedEncounterOne.admit_date
    /\ med_pc' = "day"
    /\ UNCHANGED <<med_others, med_time_slot, med_admin_records>>

\* while current_date < end_date: a day begins.
BeginDay ==
    /\ med_pc = "day"
    /\ med_current_date < MedEncounterOne.discharge_date
    /\ med_time_slot' = 0
    /\ med_pc' = "slot"
    /\ UNCHANGED <<med_others, med_random, med_frequency, med_times_per_day,
                   med_current_date, med_admin_records>>

\* while current_date < end_date: the loop is left.
MedicationDone ==
    /\ med_pc = "day"
    /\ med_current_date >= MedEncounterOne.discharge_date
    /\ med_pc' = "done"
    /\ UNCHANGED <<med_others, med_random, med_frequency, med_times_per_day,
                   med_current_date, med_time_slot, med_admin_records>>

\* The state of the task after the administration of the slot.
Administered ==
    MedAdmin([rnd |-> med_random, id |-> Len(med_admin_records) + 1,
              out |-> med_admin_records],
             MedEncounterOne, 1, med_frequency, med_times_per_day, med_current_date,
             med_time_slot)

\* One pass of `for time_slot in range(times_per_day)`: 24 / times_per_day
\* is evaluated and raises, or the administration is appended.
Administer ==
    /\ med_pc = "slot"
    /\ InRange(med_time_slot, med_times_per_day)
    /\ IF Divide(HoursPerDay, med_times_per_day).exc # ""
       THEN /\ med_pc' = Divide(HoursPerDay, med_times_per_day).exc
            /\ UNCHANGED <<med_random, med_time_slot, med_admin_records>>
       ELSE /\ med_pc' = med_pc
            /\ med_random' = Administered.rnd
            /\ med_admin_records' = Administered.out
            /\ med_time_slot' = med_time_slot + 1
    /\ UNCHANGED <<med_others, med_frequency, med_times_per_day, med_current_date>>

\* The slot loop is left: current_date += timedelta(days=1).
NextDay ==
    /\ med_pc = "slot"
    /\ ~InRange(med_time_slot, med_times_per_day)
    /\ med_current_date' = med_current_date + HoursPerDay
    /\ med_pc' = "day"
    /\ UNCHANGED <<med_others, med_random, med_frequency, med_times_per_day,
                   med_time_slot, med_admin_records>>

MedNext ==
    \/ OrderMedication
    \/ BeginDay
    \/ MedicationDone
    \/ Administer
    \/ NextDay

MedSpec == MedInit /\ [][MedNext]_vars

\* C29: generating medication administrations never divides by zero: a
\* times_per_day of 0 is drawn only for PRN and STAT, and with it the
\* medication gets no administration record and 24 / times_per_day is not
\* evaluated.
C29_NoDivisionByZero ==
    /\ med_pc # "ZeroDivisionError"
    /\ med_times_per_day = 0 =>
          /\ med_frequency \in {7, 8}
          /\ med_admin_records = <<>>
          /\ med_pc \in {"day", "slot", "done"}
          /\ med_time_slot = 0

\* A PRN or STAT medication with times_per_day 0 has been through both days
\* of the stay.
C29_Witness ==
    /\ med_pc = "done"
    /\ med_frequency \in {7, 8}
    /\ med_times_per_day = 0
    /\ med_admin_records = <<>>

\* The end of an encounter for a run made when the clock stood at c.
EndAt(enc, c) ==
    IF enc.encounter_status = "Discharged" THEN enc.discharge_date ELSE Now - clock + c

\* The times admit_date + k * h before end, h being 1 hour for units 1..4,
\* 2 hours for unit 5 and 4 hours for the others.
ScheduledTimes(enc, end) ==
    {t \in enc.admit_date..(end - 1) :
        (t - enc.admit_date) % (IF enc.current_unit_id <= 4 THEN 1
                                ELSE IF enc.current_unit_id = 5 THEN 2 ELSE 4) = 0}

\* The records are made at exactly the times, one at each.
RecordedAt(records, times) ==
    /\ {v.recorded_date : v \in records} = times
    /\ Cardinality(records) = Cardinality(times)

\* The vital signs of every encounter of the list are on its schedule, for
\* a run made when the clock stood at c.
VitalsOnSchedule(encounters, vital_signs, c) ==
    \A enc \in Range(encounters) :
        RecordedAt({v \in vital_signs : v.encounter_id = enc.encounter_id},
                   ScheduledTimes(enc, EndAt(enc, c)))

\* C30: the vital signs of an encounter are recorded exactly at admit_date
\* + k * h, k = 0, 1, ..., before the encounter's end (discharge_date, or
\* the time of the run when Active), h being 1, 2 or 4 hours by unit: in the
\* value of every vitals task, in the merged list and in the sequential
\* script's output.
C30_VitalSignsOnSchedule ==
    /\ (stage = 4 /\ Submitted) =>
          \A i \in DOMAIN task :
             Returned(i) =>
                VitalsOnSchedule(encounter_batches[i], Range(task[i].value), clock)
    /\ stage >= 5 =>
          \E c \in 0..clock :
             VitalsOnSchedule(all_encounters, Range(all_vital_signs), c)
    /\ sequential_output # <<>> =>
          \E c \in 0..clock :
             VitalsOnSchedule(sequential_output[1], Range(sequential_output[5]), c)

\* The parallel path has recorded the vital signs of an active encounter
\* and of a discharged one, the first of each at admit_date; the sequential
\* path those of a discharged encounter.
C30_Witness ==
    /\ stage >= 5
    /\ sequential_output # <<>>
    /\ \E enc \in Range(all_encounters) :
          /\ enc.encounter_status = "Active"
          /\ \E v \in Range(all_vital_signs) :
                v.encounter_id = enc.encounter_id /\ v.recorded_date = enc.admit_date
    /\ \E enc \in Range(all_encounters) :
          /\ enc.encounter_status = "Discharged"
          /\ \E v \in Range(all_vital_signs) :
                v.encounter_id = enc.encounter_id /\ v.recorded_date = enc.admit_date
    /\ \E enc \in Range(sequential_output[1]) :
          /\ enc.encounter_status = "Discharged"
          /\ \E v \in Range(sequential_output[5]) :
                v.encounter_id = enc.encounter_id /\ v.recorded_date = enc.admit_date

====
